---- MODULE Spec2Model ----
(***************************************************************************)
(* State-machine model of the photo editor: the response validator and the *)
(* data-URL codec of the service layer, the per-image history, the batch   *)
(* controller and the editor's enabling conditions.                        *)
(*                                                                         *)
(* Conventions.  A JavaScript string is a sequence of one-character        *)
(* strings.  An optional value (undefined / null) is a sequence of length  *)
(* 0 or 1: None or Some(v).  Array indices are 0-based as in the source;   *)
(* At(a, i) reads a[i].  A call that can throw returns Ok(v) or Throw(e).  *)
(***************************************************************************)
EXTENDS Integers, Sequences, FiniteSets, TLC

None == <<>>
Some(v) == <<v>>
IsSome(o) == Len(o) = 1
Val(o) == o[1]

Ok(v) == [ok |-> TRUE, val |-> v]
Throw(e) == [ok |-> FALSE, err |-> e]

At(a, i) == a[i + 1]
HasIndex(a, i) == i >= 0 /\ i < Len(a)

(***************************************************************************)
(* Strings                                                                 *)
(***************************************************************************)
IndexOf(s, c) ==
  IF \E i \in 1..Len(s) : s[i] = c
  THEN CHOOSE i \in 1..Len(s) : s[i] = c /\ \A j \in 1..(i - 1) : s[j] # c
  ELSE 0

RECURSIVE Split(_, _)
Split(s, c) ==
  LET i == IndexOf(s, c)
  IN IF i = 0 THEN <<s>>
     ELSE <<SubSeq(s, 1, i - 1)>> \o Split(SubSeq(s, i + 1, Len(s)), c)

IsSpace(c) == c \in {" ", "\t", "\n", "\r"}

RECURSIVE TrimStart(_)
TrimStart(s) ==
  IF Len(s) > 0 /\ IsSpace(s[1]) THEN TrimStart(Tail(s)) ELSE s

RECURSIVE TrimEnd(_)
TrimEnd(s) ==
  IF Len(s) > 0 /\ IsSpace(s[Len(s)]) THEN TrimEnd(SubSeq(s, 1, Len(s) - 1)) ELSE s

Trim(s) == TrimEnd(TrimStart(s))

\* The regular expression /:(.*?);/ : the leftmost ':' that has a ';' after
\* it, capturing lazily up to the first such ';'.
MimeMatch(s) ==
  LET i == IndexOf(s, ":")
  IN IF i = 0 THEN None
     ELSE LET rest == SubSeq(s, i + 1, Len(s))
              j == IndexOf(rest, ";")
          IN IF j = 0 THEN None ELSE Some(SubSeq(rest, 1, j - 1))

(***************************************************************************)
(* Base64 (the payload of a data URL)                                      *)
(***************************************************************************)
B64Alphabet ==
  << "A","B","C","D","E","F","G","H","I","J","K","L","M","N","O","P",
     "Q","R","S","T","U","V","W","X","Y","Z","a","b","c","d","e","f",
     "g","h","i","j","k","l","m","n","o","p","q","r","s","t","u","v",
     "w","x","y","z","0","1","2","3","4","5","6","7","8","9","+","/" >>

B64Value(c) == (CHOOSE i \in 1..Len(B64Alphabet) : B64Alphabet[i] = c) - 1
B64Char(v) == B64Alphabet[v + 1]
IsB64Char(c) == \E i \in 1..Len(B64Alphabet) : B64Alphabet[i] = c

RECURSIVE B64Encode(_)
B64Encode(bytes) ==
  IF Len(bytes) = 0 THEN <<>>
  ELSE IF Len(bytes) = 1 THEN
    << B64Char(bytes[1] \div 4), B64Char((bytes[1] % 4) * 16), "=", "=" >>
  ELSE IF Len(bytes) = 2 THEN
    << B64Char(bytes[1] \div 4),
       B64Char((bytes[1] % 4) * 16 + bytes[2] \div 16),
       B64Char((bytes[2] % 16) * 4), "=" >>
  ELSE
    << B64Char(bytes[1] \div 4),
       B64Char((bytes[1] % 4) * 16 + bytes[2] \div 16),
       B64Char((bytes[2] % 16) * 4 + bytes[3] \div 64),
       B64Char(bytes[3] % 64) >> \o B64Encode(SubSeq(bytes, 4, Len(bytes)))

RECURSIVE RemoveSpaces(_)
RemoveSpaces(s) ==
  IF Len(s) = 0 THEN <<>>
  ELSE IF IsSpace(s[1]) THEN RemoveSpaces(Tail(s))
  ELSE <<s[1]>> \o RemoveSpaces(Tail(s))

StripPadding(s) ==
  IF Len(s) % 4 = 0 /\ Len(s) > 0 /\ s[Len(s)] = "="
  THEN IF s[Len(s) - 1] = "=" THEN SubSeq(s, 1, Len(s) - 2)
       ELSE SubSeq(s, 1, Len(s) - 1)
  ELSE s

RECURSIVE B64DecodeGroups(_)
B64DecodeGroups(s) ==
  IF Len(s) < 2 THEN <<>>
  ELSE LET a == B64Value(s[1])
           b == B64Value(s[2])
       IN IF Len(s) = 2 THEN << a * 4 + b \div 16 >>
          ELSE LET c == B64Value(s[3])
               IN IF Len(s) = 3 THEN << a * 4 + b \div 16, (b % 16) * 16 + c \div 4 >>
                  ELSE << a * 4 + b \div 16, (b % 16) * 16 + c \div 4,
                          (c % 4) * 64 + B64Value(s[4]) >>
                       \o B64DecodeGroups(SubSeq(s, 5, Len(s)))

\* window.atob: the forgiving base64 decode; the result is the byte sequence
\* (the char codes of the binary string).
atob(s) ==
  LET t == StripPadding(RemoveSpaces(s))
  IN IF Len(t) % 4 = 1 \/ \E i \in 1..Len(t) : ~IsB64Char(t[i])
     THEN Throw([kind |-> "InvalidCharacterError"])
     ELSE Ok(B64DecodeGroups(t))

(***************************************************************************)
(* Files and the data-URL codec                                            *)
(***************************************************************************)
Str_data == << "d", "a", "t", "a", ":" >>
Str_base64 == << ";", "b", "a", "s", "e", "6", "4", "," >>
Str_image_png == << "i", "m", "a", "g", "e", "/", "p", "n", "g" >>

\* A File: its name, its mime type and its bytes.  A generated file is named
\* `${operation}-${Date.now()}.png`; the name keeps the time, which tells the
\* generated files apart (nothing reads the operation back from a name).
File(prefix, stamp, type, bytes) ==
  [name |-> [prefix |-> IF stamp = 0 THEN prefix ELSE "generated", stamp |-> stamp],
   type |-> type, bytes |-> bytes]

\* FileReader.readAsDataURL
readAsDataURL(file) == Str_data \o file.type \o Str_base64 \o B64Encode(file.bytes)

fileToPart(file) ==
  LET dataUrl == readAsDataURL(file)
      arr == Split(dataUrl, ",")
  IN IF Len(arr) < 2 THEN Throw([kind |-> "InvalidDataURL"])
     ELSE LET mimeMatch == MimeMatch(arr[1])
          IN IF ~IsSome(mimeMatch) \/ Val(mimeMatch) = <<>>
             THEN Throw([kind |-> "NoMimeType"])
             ELSE Ok([mimeType |-> Val(mimeMatch), data |-> arr[2]])

\* dataURLtoFile testing only that the header matches: !mimeMatch.
dataURLtoFile_AcceptsEmptyMime(dataurl, prefix, stamp) ==
  LET arr == Split(dataurl, ",")
  IN IF Len(arr) < 2 THEN Throw([kind |-> "InvalidDataURL"])
     ELSE LET mimeMatch == MimeMatch(arr[1])
          IN IF ~IsSome(mimeMatch)
             THEN Throw([kind |-> "NoMimeType"])
             ELSE LET bstr == atob(arr[2])
                  IN IF ~bstr.ok THEN Throw(bstr.err)
                     ELSE Ok(File(prefix, stamp, Val(mimeMatch), bstr.val))

dataURLtoFile(dataurl, prefix, stamp) ==
  LET arr == Split(dataurl, ",")
  IN IF Len(arr) < 2 THEN Throw([kind |-> "InvalidDataURL"])
     ELSE LET mimeMatch == MimeMatch(arr[1])
          IN IF ~IsSome(mimeMatch) \/ Val(mimeMatch) = <<>>
             THEN Throw([kind |-> "NoMimeType"])
             ELSE LET bstr == atob(arr[2])
                  IN IF ~bstr.ok THEN Throw(bstr.err)
                     ELSE Ok(File(prefix, stamp, Val(mimeMatch), bstr.val))

(***************************************************************************)
(* The response validator                                                  *)
(*                                                                         *)
(* A GenerateContentResponse:                                              *)
(*   promptFeedback : optional [blockReason, blockReasonMessage : optional]*)
(*   candidates     : optional sequence of                                 *)
(*                    [content : optional [parts : optional sequence of    *)
(*                                [inlineData : optional [mimeType, data]]]*)
(*                     finishReason : optional]                            *)
(*   text           : optional string                                      *)
(* Reasons are enum names; the empty name is falsy like any empty string.  *)
(***************************************************************************)
Truthy(o) == IsSome(o) /\ Val(o) # ""

\* response.candidates?.[0]
FirstCandidate(response) ==
  IF IsSome(response.candidates) /\ Len(Val(response.candidates)) > 0
  THEN Some(Val(response.candidates)[1])
  ELSE None

\* response.candidates?.[0]?.content?.parts?.find(part => part.inlineData)
FindImagePart(response) ==
  LET cand == FirstCandidate(response)
  IN IF ~IsSome(cand) \/ ~IsSome(Val(cand).content)
        \/ ~IsSome(Val(Val(cand).content).parts)
     THEN None
     ELSE LET parts == Val(Val(Val(cand).content).parts)
              hits == { i \in 1..Len(parts) : IsSome(parts[i].inlineData) }
          IN IF hits = {} THEN None
             ELSE Some(parts[CHOOSE i \in hits : \A j \in hits : i <= j])

\* response.candidates?.[0]?.finishReason
FinishReasonOf(response) ==
  LET cand == FirstCandidate(response)
  IN IF IsSome(cand) THEN Val(cand).finishReason ELSE None

\* handleApiResponse with the image looked for before the block reason.
handleApiResponse_ImageFirst(response, context) ==
  LET imagePartFromResponse == FindImagePart(response)
  IN IF IsSome(imagePartFromResponse)
     THEN LET inlineData == Val(Val(imagePartFromResponse).inlineData)
          IN Ok(Str_data \o inlineData.mimeType \o Str_base64 \o inlineData.data)
     ELSE IF IsSome(response.promptFeedback) /\ Truthy(Val(response.promptFeedback).blockReason)
     THEN LET pf == Val(response.promptFeedback)
          IN Throw([kind |-> "Blocked",
                    blockReason |-> Val(pf.blockReason),
                    detail |-> IF Truthy(pf.blockReasonMessage)
                               THEN pf.blockReasonMessage ELSE None])
     ELSE LET finishReason == FinishReasonOf(response)
          IN IF Truthy(finishReason) /\ Val(finishReason) # "STOP"
             THEN Throw([kind |-> "Refused", context |-> context,
                         finishReason |-> Val(finishReason)])
             ELSE LET textFeedback == IF IsSome(response.text)
                                      THEN Trim(Val(response.text)) ELSE <<>>
                  IN Throw([kind |-> "NoImage", context |-> context,
                            text |-> IF textFeedback # <<>>
                                     THEN Some(textFeedback) ELSE None])

\* handleApiResponse with the finish reason looked at before the image.
handleApiResponse_RefusalFirst(response, context) ==
  IF IsSome(response.promptFeedback) /\ Truthy(Val(response.promptFeedback).blockReason)
  THEN LET pf == Val(response.promptFeedback)
       IN Throw([kind |-> "Blocked",
                 blockReason |-> Val(pf.blockReason),
                 detail |-> IF Truthy(pf.blockReasonMessage)
                            THEN pf.blockReasonMessage ELSE None])
  ELSE LET finishReason == FinishReasonOf(response)
           imagePartFromResponse == FindImagePart(response)
       IN IF Truthy(finishReason) /\ Val(finishReason) # "STOP"
          THEN Throw([kind |-> "Refused", context |-> context,
                      finishReason |-> Val(finishReason)])
          ELSE IF IsSome(imagePartFromResponse)
          THEN LET inlineData == Val(Val(imagePartFromResponse).inlineData)
               IN Ok(Str_data \o inlineData.mimeType \o Str_base64 \o inlineData.data)
          ELSE LET textFeedback == IF IsSome(response.text)
                                   THEN Trim(Val(response.text)) ELSE <<>>
               IN Throw([kind |-> "NoImage", context |-> context,
                         text |-> IF textFeedback # <<>>
                                  THEN Some(textFeedback) ELSE None])

\* handleApiResponse without the exemption of the normal-stop finish reason.
handleApiResponse_StopRefused(response, context) ==
  IF IsSome(response.promptFeedback) /\ Truthy(Val(response.promptFeedback).blockReason)
  THEN LET pf == Val(response.promptFeedback)
       IN Throw([kind |-> "Blocked",
                 blockReason |-> Val(pf.blockReason),
                 detail |-> IF Truthy(pf.blockReasonMessage)
                            THEN pf.blockReasonMessage ELSE None])
  ELSE LET imagePartFromResponse == FindImagePart(response)
       IN IF IsSome(imagePartFromResponse)
          THEN LET inlineData == Val(Val(imagePartFromResponse).inlineData)
               IN Ok(Str_data \o inlineData.mimeType \o Str_base64 \o inlineData.data)
          ELSE LET finishReason == FinishReasonOf(response)
               IN IF Truthy(finishReason)
                  THEN Throw([kind |-> "Refused", context |-> context,
                              finishReason |-> Val(finishReason)])
                  ELSE LET textFeedback == IF IsSome(response.text)
                                           THEN Trim(Val(response.text)) ELSE <<>>
                       IN Throw([kind |-> "NoImage", context |-> context,
                                 text |-> IF textFeedback # <<>>
                                          THEN Some(textFeedback) ELSE None])

handleApiResponse(response, context) ==
  IF IsSome(response.promptFeedback) /\ Truthy(Val(response.promptFeedback).blockReason)
  THEN LET pf == Val(response.promptFeedback)
       IN Throw([kind |-> "Blocked",
                 blockReason |-> Val(pf.blockReason),
                 detail |-> IF Truthy(pf.blockReasonMessage)
                            THEN pf.blockReasonMessage ELSE None])
  ELSE LET imagePartFromResponse == FindImagePart(response)
       IN IF IsSome(imagePartFromResponse)
          THEN LET inlineData == Val(Val(imagePartFromResponse).inlineData)
               IN Ok(Str_data \o inlineData.mimeType \o Str_base64 \o inlineData.data)
          ELSE LET finishReason == FinishReasonOf(response)
               IN IF Truthy(finishReason) /\ Val(finishReason) # "STOP"
                  THEN Throw([kind |-> "Refused", context |-> context,
                              finishReason |-> Val(finishReason)])
                  ELSE LET textFeedback == IF IsSome(response.text)
                                           THEN Trim(Val(response.text)) ELSE <<>>
                       IN Throw([kind |-> "NoImage", context |-> context,
                                 text |-> IF textFeedback # <<>>
                                          THEN Some(textFeedback) ELSE None])

(***************************************************************************)
(* Bounds of the model                                                     *)
(***************************************************************************)
MaxImages == 2
MaxNow == 2
MaxHotspots == 1
MaxIdeaCalls == 1
MaxTextLen == 3
MaxBytes == 4
MaxCalls == 1

(***************************************************************************)
(* The editor's state (App, FilterPanel, AdjustmentPanel)                  *)
(***************************************************************************)
VARIABLES
  images,                  \* ImageState[]: [original, history, historyIndex]
  activeImageIndex,        \* -1 when no image is selected
  prompt,
  loadingMessage,          \* optional
  error,                   \* optional
  editHotspots,
  displayHotspots,
  activeTab,
  crop,                    \* optional
  completedCrop,           \* optional
  generatedBackground,     \* optional File
  generatedBackgroundUrl,  \* optional object URL
  objectUrls,              \* object URLs of backgrounds, created and not revoked
  isGeneratingIdea,        \* App
  isGeneratingFilterIdea,  \* FilterPanel.isGeneratingIdea
  isGeneratingAdjustIdea,  \* AdjustmentPanel
  isGeneratingBgIdea,      \* AdjustmentPanel
  calls,                   \* remote calls in flight, each with its awaiting handler
  now,                     \* Date.now()
  vIn,                     \* the response under validation (validator harness)
  vOut                     \* optional result of the validator

vars ==
  << images, activeImageIndex, prompt, loadingMessage, error, editHotspots,
     displayHotspots, activeTab, crop, completedCrop, generatedBackground,
     generatedBackgroundUrl, objectUrls, isGeneratingIdea, isGeneratingFilterIdea,
     isGeneratingAdjustIdea, isGeneratingBgIdea, calls, now, vIn, vOut >>

harnessVars == << vIn, vOut >>
hotspotVars == << editHotspots, displayHotspots >>
cropVars == << crop, completedCrop >>
backgroundVars == << generatedBackground, generatedBackgroundUrl, objectUrls >>

isLoading == IsSome(loadingMessage)

activeImageState ==
  IF HasIndex(images, activeImageIndex) THEN Some(At(images, activeImageIndex)) ELSE None

CurrentOf(imageState) ==
  IF HasIndex(imageState.history, imageState.historyIndex)
  THEN Some(At(imageState.history, imageState.historyIndex))
  ELSE None

currentImage == IF IsSome(activeImageState) THEN CurrentOf(Val(activeImageState)) ELSE None

canUndo == IF IsSome(activeImageState) THEN Val(activeImageState).historyIndex > 0 ELSE FALSE

canRedo ==
  IF IsSome(activeImageState)
  THEN Val(activeImageState).historyIndex < Len(Val(activeImageState).history) - 1
  ELSE FALSE

\* updateImageState applying the update to every image of the collection.
updateImageState_EveryImage(prevImages, index, historyIndex) ==
  [ i \in 1..Len(prevImages) |-> [prevImages[i] EXCEPT !.historyIndex = historyIndex] ]

\* prevImages.map((img, i) => i === index ? { ...img, ...updates } : img)
updateImageState(prevImages, index, historyIndex) ==
  [ i \in 1..Len(prevImages) |->
      IF i - 1 = index THEN [prevImages[i] EXCEPT !.historyIndex = historyIndex]
      ELSE prevImages[i] ]

\* addImageToHistory with the cursor set to the length of the new history.
addImageToHistory_CursorPastEnd(prevImages, newImageFile, index) ==
  IF ~HasIndex(prevImages, index) THEN prevImages
  ELSE LET targetImage == At(prevImages, index)
           newHistory == Append(SubSeq(targetImage.history, 1, targetImage.historyIndex + 1),
                                newImageFile)
       IN [prevImages EXCEPT ![index + 1] =
             [targetImage EXCEPT !.history = newHistory,
                                 !.historyIndex = Len(newHistory)]]

\* addImageToHistory appending to the whole history, redoable entries included.
addImageToHistory_NoTruncate(prevImages, newImageFile, index) ==
  IF ~HasIndex(prevImages, index) THEN prevImages
  ELSE LET targetImage == At(prevImages, index)
           newHistory == Append(targetImage.history, newImageFile)
       IN [prevImages EXCEPT ![index + 1] =
             [targetImage EXCEPT !.history = newHistory,
                                 !.historyIndex = targetImage.historyIndex + 1]]

\* addImageToHistory appending the new image to every image of the collection.
addImageToHistory_EveryImage(prevImages, newImageFile, index) ==
  IF ~HasIndex(prevImages, index) THEN prevImages
  ELSE [ i \in 1..Len(prevImages) |->
           LET newHistory == Append(SubSeq(prevImages[i].history, 1,
                                           prevImages[i].historyIndex + 1), newImageFile)
           IN [prevImages[i] EXCEPT !.history = newHistory,
                                    !.historyIndex = Len(newHistory) - 1] ]

\* addImageToHistory keeping the entries before the cursor only: slice(0, historyIndex).
addImageToHistory_DropsCurrent(prevImages, newImageFile, index) ==
  IF ~HasIndex(prevImages, index) THEN prevImages
  ELSE LET targetImage == At(prevImages, index)
           newHistory == Append(SubSeq(targetImage.history, 1, targetImage.historyIndex),
                                newImageFile)
       IN [prevImages EXCEPT ![index + 1] =
             [targetImage EXCEPT !.history = newHistory,
                                 !.historyIndex = Len(newHistory) - 1]]

\* addImageToHistory adding the new image as an image of its own when the
\* collection has none at the index.
addImageToHistory_AddsImage(prevImages, newImageFile, index) ==
  IF ~HasIndex(prevImages, index)
  THEN Append(prevImages, [original |-> newImageFile, history |-> << newImageFile >>,
                           historyIndex |-> 0])
  ELSE LET targetImage == At(prevImages, index)
           newHistory == Append(SubSeq(targetImage.history, 1, targetImage.historyIndex + 1),
                                newImageFile)
       IN [prevImages EXCEPT ![index + 1] =
             [targetImage EXCEPT !.history = newHistory,
                                 !.historyIndex = Len(newHistory) - 1]]

\* The state updater of addImageToHistory.
addImageToHistory(prevImages, newImageFile, index) ==
  IF ~HasIndex(prevImages, index) THEN prevImages
  ELSE LET targetImage == At(prevImages, index)
           newHistory == Append(SubSeq(targetImage.history, 1, targetImage.historyIndex + 1),
                                newImageFile)
       IN [prevImages EXCEPT ![index + 1] =
             [targetImage EXCEPT !.history = newHistory,
                                 !.historyIndex = Len(newHistory) - 1]]

\* files.map(file => ({ original: file, history: [file], historyIndex: 0 }))
NewImageStates(files) ==
  [ i \in 1..Len(files) |-> [original |-> files[i], history |-> <<files[i]>>, historyIndex |-> 0] ]

(***************************************************************************)
(* What is on screen (renderContent)                                       *)
(***************************************************************************)
ErrorShown == IsSome(error)
EditorShown == ~IsSome(error) /\ IsSome(currentImage)
StartScreenShown == ~IsSome(error) /\ ~IsSome(currentImage)
FilterPanelMounted == EditorShown /\ activeTab = "filters"
AdjustmentPanelMounted == EditorShown /\ activeTab = "adjust"
ThumbnailsShown == EditorShown /\ Len(images) > 1

(***************************************************************************)
(* Inputs                                                                  *)
(***************************************************************************)
Roster ==
  << File("a.png", 0, Str_image_png, <<1>>),
     File("b.png", 0, Str_image_png, <<2, 3>>),
     File("c.png", 0, Str_image_png, <<4, 5, 6>>),
     File("d.png", 0, Str_image_png, <<7, 8, 9, 10>>) >>

\* The file lists a user may select: the first n files of the roster.
FileLists == { SubSeq(Roster, 1, n) : n \in 1..MaxImages }

BackgroundFiles == { File("bg.png", 0, Str_image_png, <<11>>) }

Tabs == { "retouch", "adjust", "filters", "crop" }
ClickOffsets == { [x |-> 1, y |-> 2] }
PromptInputs == { << " " >>, << "p" >> }
PanelPrompts == { << "f" >> }

(***************************************************************************)
(* Mounting.  FilterPanel and AdjustmentPanel keep their idea flags in     *)
(* component state: a panel that leaves the screen loses them, and an idea *)
(* call it left in flight can afterwards reach only App's setError.        *)
(***************************************************************************)
Orphan(rawCalls, filterMounted, adjustMounted) ==
  [ k \in 1..Len(rawCalls) |->
      IF rawCalls[k].fn = "generateRandomPrompt"
         /\ \/ rawCalls[k].context = "filter" /\ ~filterMounted
            \/ rawCalls[k].context \in {"adjustment", "background"} /\ ~adjustMounted
      THEN [rawCalls[k] EXCEPT !.mounted = FALSE]
      ELSE rawCalls[k] ]

\* The render that follows a handler: rawX is the value the handler left.
Render(rawFilterIdea, rawAdjustIdea, rawBgIdea, rawCalls) ==
  /\ isGeneratingFilterIdea' = (FilterPanelMounted' /\ rawFilterIdea)
  /\ isGeneratingAdjustIdea' = (AdjustmentPanelMounted' /\ rawAdjustIdea)
  /\ isGeneratingBgIdea' = (AdjustmentPanelMounted' /\ rawBgIdea)
  /\ calls' = Orphan(rawCalls, FilterPanelMounted', AdjustmentPanelMounted')

RenderSame ==
  Render(isGeneratingFilterIdea, isGeneratingAdjustIdea, isGeneratingBgIdea, calls)

Failure(prefix, err) == Some([prefix |-> prefix, cause |-> err])

(***************************************************************************)
(* Synchronous handlers of App                                             *)
(***************************************************************************)
\* handleImageUpload adding the new images after the ones already loaded.
handleImageUpload_Appends(files) ==
  /\ error' = None
  /\ images' = images \o NewImageStates(files)
  /\ activeImageIndex' = 0
  /\ editHotspots' = <<>>
  /\ displayHotspots' = <<>>
  /\ activeTab' = "retouch"
  /\ crop' = None
  /\ completedCrop' = None
  /\ generatedBackground' = None
  /\ generatedBackgroundUrl' = None
  /\ UNCHANGED objectUrls
  /\ UNCHANGED << prompt, loadingMessage, isGeneratingIdea, now, harnessVars >>
  /\ RenderSame

handleImageUpload(files) ==
  /\ error' = None
  /\ images' = NewImageStates(files)
  /\ activeImageIndex' = 0
  /\ editHotspots' = <<>>
  /\ displayHotspots' = <<>>
  /\ activeTab' = "retouch"
  /\ crop' = None
  /\ completedCrop' = None
  /\ generatedBackground' = None
  /\ generatedBackgroundUrl' = None
  /\ UNCHANGED objectUrls
  /\ UNCHANGED << prompt, loadingMessage, isGeneratingIdea, now, harnessVars >>
  /\ RenderSame

handleFileSelect(files) ==
  IF Len(files) > 0 THEN handleImageUpload(files) ELSE UNCHANGED vars

\* handleUndo without the canUndo test.
handleUndo_NoGuard ==
  IF IsSome(activeImageState)
  THEN /\ images' = updateImageState(images, activeImageIndex,
                                     Val(activeImageState).historyIndex - 1)
       /\ editHotspots' = <<>>
       /\ displayHotspots' = <<>>
       /\ UNCHANGED << activeImageIndex, prompt, loadingMessage, error, activeTab,
                       cropVars, backgroundVars, isGeneratingIdea, now, harnessVars >>
       /\ RenderSame
  ELSE UNCHANGED vars

handleUndo ==
  IF canUndo /\ IsSome(activeImageState)
  THEN /\ images' = updateImageState(images, activeImageIndex,
                                     Val(activeImageState).historyIndex - 1)
       /\ editHotspots' = <<>>
       /\ displayHotspots' = <<>>
       /\ UNCHANGED << activeImageIndex, prompt, loadingMessage, error, activeTab,
                       cropVars, backgroundVars, isGeneratingIdea, now, harnessVars >>
       /\ RenderSame
  ELSE UNCHANGED vars

handleRedo ==
  IF canRedo /\ IsSome(activeImageState)
  THEN /\ images' = updateImageState(images, activeImageIndex,
                                     Val(activeImageState).historyIndex + 1)
       /\ editHotspots' = <<>>
       /\ displayHotspots' = <<>>
       /\ UNCHANGED << activeImageIndex, prompt, loadingMessage, error, activeTab,
                       cropVars, backgroundVars, isGeneratingIdea, now, harnessVars >>
       /\ RenderSame
  ELSE UNCHANGED vars

\* handleReset dropping every entry of the history after the original.
handleReset_Truncates ==
  IF IsSome(activeImageState)
  THEN /\ images' = [images EXCEPT ![activeImageIndex + 1] =
                       [@ EXCEPT !.history = << @[1] >>, !.historyIndex = 0]]
       /\ error' = None
       /\ editHotspots' = <<>>
       /\ displayHotspots' = <<>>
       /\ generatedBackground' = None
       /\ generatedBackgroundUrl' = None
       /\ UNCHANGED objectUrls
       /\ UNCHANGED << activeImageIndex, prompt, loadingMessage, activeTab,
                       cropVars, isGeneratingIdea, now, harnessVars >>
       /\ RenderSame
  ELSE UNCHANGED vars

handleReset ==
  IF IsSome(activeImageState)
  THEN /\ images' = updateImageState(images, activeImageIndex, 0)
       /\ error' = None
       /\ editHotspots' = <<>>
       /\ displayHotspots' = <<>>
       /\ generatedBackground' = None
       /\ generatedBackgroundUrl' = None
       /\ UNCHANGED objectUrls
       /\ UNCHANGED << activeImageIndex, prompt, loadingMessage, activeTab,
                       cropVars, isGeneratingIdea, now, harnessVars >>
       /\ RenderSame
  ELSE UNCHANGED vars

\* handleUploadNew leaving the active index as it is.
handleUploadNew_KeepsIndex ==
  /\ images' = <<>>
  /\ error' = None
  /\ prompt' = <<>>
  /\ editHotspots' = <<>>
  /\ displayHotspots' = <<>>
  /\ generatedBackground' = None
  /\ generatedBackgroundUrl' = None
  /\ UNCHANGED objectUrls
  /\ UNCHANGED << activeImageIndex, loadingMessage, activeTab, cropVars, isGeneratingIdea,
                  now, harnessVars >>
  /\ RenderSame

handleUploadNew ==
  /\ images' = <<>>
  /\ activeImageIndex' = -1
  /\ error' = None
  /\ prompt' = <<>>
  /\ editHotspots' = <<>>
  /\ displayHotspots' = <<>>
  /\ generatedBackground' = None
  /\ generatedBackgroundUrl' = None
  /\ UNCHANGED objectUrls
  /\ UNCHANGED << loadingMessage, activeTab, cropVars, isGeneratingIdea, now, harnessVars >>
  /\ RenderSame

\* handleSelectImage leaving the hotspots of the previous image in place.
handleSelectImage_KeepsHotspots(index) ==
  /\ activeImageIndex' = index
  /\ crop' = None
  /\ completedCrop' = None
  /\ UNCHANGED << images, prompt, loadingMessage, error, hotspotVars, activeTab,
                  backgroundVars, isGeneratingIdea, now, harnessVars >>
  /\ RenderSame

handleSelectImage(index) ==
  /\ activeImageIndex' = index
  /\ editHotspots' = <<>>
  /\ displayHotspots' = <<>>
  /\ crop' = None
  /\ completedCrop' = None
  /\ UNCHANGED << images, prompt, loadingMessage, error, activeTab, backgroundVars,
                  isGeneratingIdea, now, harnessVars >>
  /\ RenderSame

\* The click lands at offset (x, y) of an image displayed at half its natural
\* size: scaleX = scaleY = 2.
handleImageClick(offset) ==
  IF activeTab # "retouch" THEN UNCHANGED vars
  ELSE /\ displayHotspots' = Append(displayHotspots, offset)
       /\ editHotspots' = Append(editHotspots, [x |-> offset.x * 2, y |-> offset.y * 2])
       /\ UNCHANGED << images, activeImageIndex, prompt, loadingMessage, error, activeTab,
                       cropVars, backgroundVars, isGeneratingIdea, now, harnessVars >>
       /\ RenderSame

\* "Hapus Titik"
clearHotspots ==
  /\ editHotspots' = <<>>
  /\ displayHotspots' = <<>>
  /\ UNCHANGED << images, activeImageIndex, prompt, loadingMessage, error, activeTab,
                  cropVars, backgroundVars, isGeneratingIdea, now, harnessVars >>
  /\ RenderSame

setPrompt(value) ==
  /\ prompt' = value
  /\ UNCHANGED << images, activeImageIndex, loadingMessage, error, hotspotVars, activeTab,
                  cropVars, backgroundVars, isGeneratingIdea, now, harnessVars >>
  /\ RenderSame

setActiveTab(tab) ==
  /\ activeTab' = tab
  /\ UNCHANGED << images, activeImageIndex, prompt, loadingMessage, error, hotspotVars,
                  cropVars, backgroundVars, isGeneratingIdea, now, harnessVars >>
  /\ RenderSame

\* "Coba Lagi": setError(null)
dismissError ==
  /\ error' = None
  /\ UNCHANGED << images, activeImageIndex, prompt, loadingMessage, hotspotVars, activeTab,
                  cropVars, backgroundVars, isGeneratingIdea, now, harnessVars >>
  /\ RenderSame

\* ReactCrop's onChange and onComplete at the end of a drag.
setCompletedCrop(c) ==
  /\ crop' = Some(c)
  /\ completedCrop' = Some(c)
  /\ UNCHANGED << images, activeImageIndex, prompt, loadingMessage, error, hotspotVars,
                  activeTab, backgroundVars, isGeneratingIdea, now, harnessVars >>
  /\ RenderSame

\* URL.createObjectURL and URL.revokeObjectURL.  An object URL is told apart by
\* the blob it refers to; `urls` is the set of those created and not revoked.
createObjectURL(blob) == [blob |-> blob]

revokeObjectURL(urls, url) == IF IsSome(url) THEN urls \ { Val(url) } ELSE urls

handleBackgroundUpload(file) ==
  /\ error' = None
  /\ generatedBackground' = Some(file)
  /\ generatedBackgroundUrl' = Some(createObjectURL(file))
  /\ objectUrls' = revokeObjectURL(objectUrls, generatedBackgroundUrl)
                     \cup { createObjectURL(file) }
  /\ UNCHANGED << images, activeImageIndex, prompt, loadingMessage, hotspotVars, activeTab,
                  cropVars, isGeneratingIdea, now, harnessVars >>
  /\ RenderSame

\* canvas.toDataURL('image/png') of the cropped region
CroppedImageUrl == Str_data \o Str_image_png \o Str_base64 \o B64Encode(<<12>>)

handleApplyCrop ==
  IF ~IsSome(completedCrop) \/ ~EditorShown
  THEN /\ error' = Failure("Silakan pilih area untuk dipotong.", [kind |-> "Validation"])
       /\ UNCHANGED << images, activeImageIndex, prompt, loadingMessage, hotspotVars,
                       activeTab, cropVars, backgroundVars, isGeneratingIdea, now,
                       harnessVars >>
       /\ RenderSame
  ELSE LET newImageFile == dataURLtoFile(CroppedImageUrl, "cropped", now)
       IN /\ newImageFile.ok
          /\ now' = now + 1
          /\ images' = addImageToHistory(images, newImageFile.val, activeImageIndex)
          /\ crop' = None
          /\ completedCrop' = None
          /\ UNCHANGED << activeImageIndex, prompt, loadingMessage, error, hotspotVars,
                          activeTab, backgroundVars, isGeneratingIdea, harnessVars >>
          /\ RenderSame

(***************************************************************************)
(* Replies of the remote service                                           *)
(***************************************************************************)
Response(promptFeedback, candidates, text) ==
  [promptFeedback |-> promptFeedback, candidates |-> candidates, text |-> text]

Candidate(parts, finishReason) ==
  [content |-> Some([parts |-> parts]), finishReason |-> finishReason]

TextPart == [inlineData |-> None]
ImagePart(mimeType, data) == [inlineData |-> Some([mimeType |-> mimeType, data |-> data])]

PngPart == ImagePart(Str_image_png, << "Q", "Q", "=", "=" >>)
JpgPart == ImagePart(<< "i", "/", "j" >>, << "/", "w", "A", "Q" >>)
NoMimePart == ImagePart(<<>>, << "Q", "Q", "=", "=" >>)
CommaMimePart == ImagePart(<< "a", ",", "b" >>, << "Q", "Q", "=", "=" >>)
BadPayloadPart == ImagePart(Str_image_png, << "Q", "!" >>)

Blocked(reason, message) ==
  Some([blockReason |-> Some(reason), blockReasonMessage |-> message])

PromptFeedbacks ==
  { None, Some([blockReason |-> None, blockReasonMessage |-> None]),
    Blocked("SAFETY", None), Blocked("SAFETY", Some("")), Blocked("OTHER", Some("policy")) }

PartLists ==
  { None, Some(<<>>), Some(<< TextPart >>), Some(<< PngPart >>),
    Some(<< TextPart, PngPart >>), Some(<< JpgPart, PngPart >>),
    Some(<< NoMimePart >>), Some(<< CommaMimePart >>), Some(<< BadPayloadPart >>) }

FinishReasons == { None, Some("STOP"), Some("SAFETY") }

\* A request is sent without a candidate count, so a response carries at most
\* one candidate.
CandidateLists ==
  { None, Some(<<>>), Some(<< [content |-> None, finishReason |-> Some("SAFETY")] >>) }
  \cup { Some(<< Candidate(p, f) >>) : p \in PartLists, f \in FinishReasons }

Texts == { None, Some(<<>>), Some(<< " " >>), Some(<< " ", "t", " " >>) }

Responses ==
  { Response(pf, c, t) : pf \in PromptFeedbacks, c \in CandidateLists, t \in Texts }

Contexts == { "edit", "filter", "adjustment", "background replacement" }

\* The replies the editor's runs resolve with: a rejected call, or one response
\* of each outcome of the validator and the decoder.
Rejected == [rejected |-> TRUE]
Resolved(r) == [rejected |-> FALSE, response |-> r]

EditorResponses ==
  { Response(None, Some(<< Candidate(Some(<< PngPart >>), Some("STOP")) >>), None),
    Response(Blocked("SAFETY", None), Some(<< Candidate(Some(<< PngPart >>), Some("STOP")) >>), None),
    Response(None, Some(<< Candidate(Some(<< NoMimePart >>), Some("STOP")) >>), None) }

EditorReplies == { Rejected } \cup { Resolved(r) : r \in EditorResponses }

\* generateImages: a list of generated images, each with its base64 bytes.
ImagesReplies ==
  { Rejected,
    Resolved([generatedImages |-> None]),
    Resolved([generatedImages |-> Some(<<>>)]),
    Resolved([generatedImages |-> Some(<< [imageBytes |-> << "C", "w", "=", "=" >>] >>)]) }

\* generateContent of the text model: the text of the response.
IdeaReplies ==
  { Rejected } \cup
  { Resolved([text |-> t]) :
      t \in { None, Some(<<>>), Some(<< " ", "\"", "p", "\"" >>),
              Some(<< "\"", " ", "\"" >>) } }

(***************************************************************************)
(* The operation dispatcher (services/geminiService)                       *)
(***************************************************************************)
NetworkError == [kind |-> "NetworkError"]

\* generateEditedImage, generateFilteredImage, generateAdjustedImage and
\* applyBackgroundToImage after their single generateContent call returned.
ImageCallResult(reply, context) ==
  IF reply.rejected THEN Throw(NetworkError)
  ELSE handleApiResponse(reply.response, context)

generateBackgroundImageResult(reply) ==
  IF reply.rejected THEN Throw(NetworkError)
  ELSE LET generatedImages == reply.response.generatedImages
       IN IF IsSome(generatedImages) /\ Len(Val(generatedImages)) > 0
          THEN Ok(Str_data \o Str_image_png \o Str_base64 \o Val(generatedImages)[1].imageBytes)
          ELSE Throw([kind |-> "BackgroundGeneration"])

RECURSIVE StripQuotes(_)
StripQuotes(s) ==
  IF Len(s) = 0 THEN <<>>
  ELSE IF s[1] \in { "\"", "'" } THEN StripQuotes(Tail(s))
  ELSE << s[1] >> \o StripQuotes(Tail(s))

\* generateRandomPrompt keeping the quote characters: response.text.trim().
generateRandomPromptResult_KeepsQuotes(reply) ==
  IF reply.rejected THEN Throw([kind |-> "Idea", cause |-> NetworkError])
  ELSE IF ~IsSome(reply.response.text) THEN Throw([kind |-> "Idea", cause |-> [kind |-> "TypeError"]])
  ELSE LET text == Trim(Val(reply.response.text))
       IN IF text = <<>> THEN Throw([kind |-> "Idea", cause |-> [kind |-> "EmptySuggestion"]])
          ELSE Ok(text)

generateRandomPromptResult(reply) ==
  IF reply.rejected THEN Throw([kind |-> "Idea", cause |-> NetworkError])
  ELSE IF ~IsSome(reply.response.text) THEN Throw([kind |-> "Idea", cause |-> [kind |-> "TypeError"]])
  ELSE LET text == StripQuotes(Trim(Val(reply.response.text)))
       IN IF text = <<>> THEN Throw([kind |-> "Idea", cause |-> [kind |-> "EmptySuggestion"]])
          ELSE Ok(text)

ContextOf(fn) ==
  CASE fn = "generateEditedImage" -> "edit"
    [] fn = "generateFilteredImage" -> "filter"
    [] fn = "generateAdjustedImage" -> "adjustment"
    [] fn = "applyBackgroundToImage" -> "background replacement"

(***************************************************************************)
(* Asynchronous handlers of App.  A handler runs up to its remote call in  *)
(* one step (reading the file it sends included); the call then stays in   *)
(* `calls` with what the handler captured, and the step that resolves it   *)
(* runs the handler up to its next remote call or to its end.  A call of   *)
(* a batch also records, in `results`, the files its earlier targets       *)
(* produced (a history variable: no handler reads it).                     *)
(***************************************************************************)
Remove(seq, k) == SubSeq(seq, 1, k - 1) \o SubSeq(seq, k + 1, Len(seq))

\* fileToPart of every file of a request, in order: the parts, or the first throw.
RECURSIVE PartsOf(_)
PartsOf(files) ==
  IF Len(files) = 0 THEN Ok(<<>>)
  ELSE LET head == fileToPart(files[1])
       IN IF ~head.ok THEN head
          ELSE LET rest == PartsOf(Tail(files))
               IN IF ~rest.ok THEN rest ELSE Ok(<< head.val >> \o rest.val)

ErrorPrefix(c) ==
  CASE c.handler = "handleGenerate" -> "Gagal menghasilkan gambar."
    [] c.handler = "handleApplyBatchOperation" -> "Gagal menerapkan " \o c.operationName \o "."
    [] c.handler = "handleApplyBackground" -> "Gagal menerapkan latar belakang."

FilePrefix(c) ==
  CASE c.handler = "handleGenerate" -> "edited"
    [] c.handler = "handleApplyBatchOperation" -> c.operationName
    [] c.handler = "handleApplyBackground" -> "bg-applied"

BatchLoadingMessage(c, i) ==
  IF c.applyToAll
  THEN [text |-> "Menerapkan " \o c.operationName \o " ke gambar", i |-> i + 1,
        n |-> Len(c.targets)]
  ELSE [text |-> "AI sedang menerapkan " \o c.operationName, i |-> 0, n |-> 0]

\* The loop of a batch from position `from` of its targets, up to its next await:
\* the position it stops at to send a request, or the end of the loop, or a throw
\* while reading the file to send.  The loop reads the images it was started with.
RECURSIVE BatchLoop(_, _)
BatchLoop(c, from) ==
  IF from >= Len(c.targets) THEN [done |-> TRUE, failed |-> FALSE]
  ELSE LET imageState == At(c.snapshot, At(c.targets, from))
           imageToProcess == CurrentOf(imageState)
       IN IF ~IsSome(imageToProcess) THEN BatchLoop(c, from + 1)
          ELSE LET files == << Val(imageToProcess) >> \o c.extra
                   parts == PartsOf(files)
               IN IF ~parts.ok THEN [done |-> TRUE, failed |-> TRUE, err |-> parts.err]
                  ELSE [done |-> FALSE, failed |-> FALSE,
                        call |-> [c EXCEPT !.i = from, !.sent = files]]

BatchTargets(applyToAll) ==
  IF applyToAll THEN [ i \in 1..Len(images) |-> i - 1 ] ELSE << activeImageIndex >>

\* StartBatch sending the requests of all its targets at once.
StartBatch_AllAtOnce(handler, fn, operationName, applyToAll, extra) ==
  LET targets == BatchTargets(applyToAll)
      c == [fn |-> fn, handler |-> handler, operationName |-> operationName,
            applyToAll |-> applyToAll, targets |-> targets, snapshot |-> images,
            activeImageIndex |-> activeImageIndex, extra |-> extra, i |-> 0, sent |-> <<>>,
            results |-> <<>>]
      all == [ j \in 1..Len(targets) |->
                 [c EXCEPT !.i = j - 1,
                           !.sent = << Val(CurrentOf(At(images, targets[j]))) >> \o extra] ]
  IN IF \E t \in 1..Len(targets) : targets[t] < 0 \/ ~HasIndex(images, targets[t])
     THEN /\ error' = Failure("Tidak ada gambar yang dipilih untuk menerapkan "
                                \o operationName \o ".", [kind |-> "Validation"])
          /\ UNCHANGED << images, activeImageIndex, prompt, loadingMessage, hotspotVars,
                          activeTab, cropVars, backgroundVars, isGeneratingIdea, now,
                          harnessVars >>
          /\ RenderSame
     ELSE /\ error' = None
          /\ loadingMessage' = IF Len(all) = 0 THEN None ELSE Some(BatchLoadingMessage(c, 0))
          /\ UNCHANGED << images, activeImageIndex, prompt, hotspotVars, activeTab,
                          cropVars, backgroundVars, isGeneratingIdea, now, harnessVars >>
          /\ Render(isGeneratingFilterIdea, isGeneratingAdjustIdea, isGeneratingBgIdea,
                    calls \o all)

\* The body shared by handleApplyBatchOperation and handleApplyBackground.
StartBatch(handler, fn, operationName, applyToAll, extra) ==
  LET targets == BatchTargets(applyToAll)
      c == [fn |-> fn, handler |-> handler, operationName |-> operationName,
            applyToAll |-> applyToAll, targets |-> targets, snapshot |-> images,
            activeImageIndex |-> activeImageIndex, extra |-> extra, i |-> 0, sent |-> <<>>,
            results |-> <<>>]
  IN IF \E t \in 1..Len(targets) : targets[t] < 0 \/ ~HasIndex(images, targets[t])
     THEN /\ error' = Failure("Tidak ada gambar yang dipilih untuk menerapkan "
                                \o operationName \o ".", [kind |-> "Validation"])
          /\ UNCHANGED << images, activeImageIndex, prompt, loadingMessage, hotspotVars,
                          activeTab, cropVars, backgroundVars, isGeneratingIdea, now,
                          harnessVars >>
          /\ RenderSame
     ELSE LET loop == BatchLoop(c, 0)
          IN /\ error' = IF loop.failed THEN Failure(ErrorPrefix(c), loop.err) ELSE None
             /\ loadingMessage' = IF loop.done THEN None
                                  ELSE Some(BatchLoadingMessage(c, loop.call.i))
             /\ UNCHANGED << images, activeImageIndex, prompt, hotspotVars, activeTab,
                             cropVars, backgroundVars, isGeneratingIdea, now, harnessVars >>
             /\ Render(isGeneratingFilterIdea, isGeneratingAdjustIdea, isGeneratingBgIdea,
                       IF loop.done THEN calls ELSE Append(calls, loop.call))

handleApplyBatchOperation(batchPrompt, fn, operationName, applyToAll) ==
  StartBatch("handleApplyBatchOperation", fn, operationName, applyToAll, <<>>)

handleApplyFilter(filterPrompt, applyToAll) ==
  handleApplyBatchOperation(filterPrompt, "generateFilteredImage", "filter", applyToAll)

handleApplyAdjustment(adjustmentPrompt, applyToAll) ==
  handleApplyBatchOperation(adjustmentPrompt, "generateAdjustedImage", "penyesuaian", applyToAll)

handleApplyBackground(applyToAll) ==
  IF ~IsSome(generatedBackground)
  THEN /\ error' = Failure("Tidak ada latar belakang yang dibuat untuk diterapkan.",
                           [kind |-> "Validation"])
       /\ UNCHANGED << images, activeImageIndex, prompt, loadingMessage, hotspotVars,
                       activeTab, cropVars, backgroundVars, isGeneratingIdea, now,
                       harnessVars >>
       /\ RenderSame
  ELSE StartBatch("handleApplyBackground", "applyBackgroundToImage", "latar belakang",
                  applyToAll, << Val(generatedBackground) >>)

\* handleGenerate testing the prompt without trimming it: !prompt.
handleGenerate_UntrimmedPrompt ==
  IF ~IsSome(currentImage) \/ prompt = <<>> \/ Len(editHotspots) = 0
  THEN /\ error' = Failure(IF ~IsSome(currentImage)
                             THEN "Tidak ada gambar yang dimuat untuk diedit."
                           ELSE IF prompt = <<>>
                             THEN "Silakan masukkan deskripsi untuk editan Anda."
                           ELSE "Silakan klik pada gambar untuk memilih area yang akan diedit.",
                           [kind |-> "Validation"])
       /\ UNCHANGED << images, activeImageIndex, prompt, loadingMessage, hotspotVars,
                       activeTab, cropVars, backgroundVars, isGeneratingIdea, now,
                       harnessVars >>
       /\ RenderSame
  ELSE LET c == [fn |-> "generateEditedImage", handler |-> "handleGenerate",
                 operationName |-> "edit", applyToAll |-> FALSE,
                 targets |-> << activeImageIndex >>, snapshot |-> <<>>,
                 activeImageIndex |-> activeImageIndex, extra |-> <<>>, i |-> 0,
                 sent |-> << Val(currentImage) >>, results |-> <<>>]
           parts == PartsOf(c.sent)
       IN /\ error' = IF parts.ok THEN None ELSE Failure(ErrorPrefix(c), parts.err)
          /\ loadingMessage' = IF parts.ok
                               THEN Some([text |-> "AI sedang bekerja...", i |-> 0, n |-> 0])
                               ELSE None
          /\ UNCHANGED << images, activeImageIndex, prompt, hotspotVars, activeTab,
                          cropVars, backgroundVars, isGeneratingIdea, now, harnessVars >>
          /\ Render(isGeneratingFilterIdea, isGeneratingAdjustIdea, isGeneratingBgIdea,
                    IF parts.ok THEN Append(calls, c) ELSE calls)

handleGenerate ==
  IF ~IsSome(currentImage) \/ Trim(prompt) = <<>> \/ Len(editHotspots) = 0
  THEN /\ error' = Failure(IF ~IsSome(currentImage)
                             THEN "Tidak ada gambar yang dimuat untuk diedit."
                           ELSE IF Trim(prompt) = <<>>
                             THEN "Silakan masukkan deskripsi untuk editan Anda."
                           ELSE "Silakan klik pada gambar untuk memilih area yang akan diedit.",
                           [kind |-> "Validation"])
       /\ UNCHANGED << images, activeImageIndex, prompt, loadingMessage, hotspotVars,
                       activeTab, cropVars, backgroundVars, isGeneratingIdea, now,
                       harnessVars >>
       /\ RenderSame
  ELSE LET c == [fn |-> "generateEditedImage", handler |-> "handleGenerate",
                 operationName |-> "edit", applyToAll |-> FALSE,
                 targets |-> << activeImageIndex >>, snapshot |-> <<>>,
                 activeImageIndex |-> activeImageIndex, extra |-> <<>>, i |-> 0,
                 sent |-> << Val(currentImage) >>, results |-> <<>>]
           parts == PartsOf(c.sent)
       IN /\ error' = IF parts.ok THEN None ELSE Failure(ErrorPrefix(c), parts.err)
          /\ loadingMessage' = IF parts.ok
                               THEN Some([text |-> "AI sedang bekerja...", i |-> 0, n |-> 0])
                               ELSE None
          /\ UNCHANGED << images, activeImageIndex, prompt, hotspotVars, activeTab,
                          cropVars, backgroundVars, isGeneratingIdea, now, harnessVars >>
          /\ Render(isGeneratingFilterIdea, isGeneratingAdjustIdea, isGeneratingBgIdea,
                    IF parts.ok THEN Append(calls, c) ELSE calls)

IsImageEditCall(c) ==
  c.fn \in { "generateEditedImage", "generateFilteredImage", "generateAdjustedImage",
             "applyBackgroundToImage" }

\* The continuation of handleGenerate, handleApplyBatchOperation and
\* handleApplyBackground after `await`: call k resolves with `reply`.
\* The continuation sending the request again after a failure.
ResolveImageCall_Retries(k, reply) ==
  LET c == calls[k]
      imageIndex == At(c.targets, c.i)
      resultUrl == ImageCallResult(reply, ContextOf(c.fn))
      newImageFile == IF resultUrl.ok THEN dataURLtoFile(resultUrl.val, FilePrefix(c), now)
                      ELSE resultUrl
  IN /\ resultUrl.ok => now <= MaxNow
     /\ now' = IF resultUrl.ok THEN now + 1 ELSE now
     /\ IF newImageFile.ok
        THEN LET loop == IF c.handler = "handleGenerate"
                         THEN [done |-> TRUE, failed |-> FALSE]
                         ELSE BatchLoop([c EXCEPT !.results = Append(@, newImageFile.val)],
                                        c.i + 1)
             IN /\ images' = addImageToHistory(images, newImageFile.val, imageIndex)
                /\ crop' = IF imageIndex = c.activeImageIndex THEN None ELSE crop
                /\ completedCrop' = IF imageIndex = c.activeImageIndex THEN None
                                    ELSE completedCrop
                /\ editHotspots' = IF c.handler = "handleGenerate" THEN <<>> ELSE editHotspots
                /\ displayHotspots' = IF c.handler = "handleGenerate" THEN <<>>
                                      ELSE displayHotspots
                /\ error' = IF loop.failed THEN Failure(ErrorPrefix(c), loop.err) ELSE error
                /\ loadingMessage' = IF loop.done THEN None
                                     ELSE Some(BatchLoadingMessage(c, loop.call.i))
                /\ UNCHANGED << activeImageIndex, prompt, activeTab, backgroundVars,
                                isGeneratingIdea, harnessVars >>
                /\ Render(isGeneratingFilterIdea, isGeneratingAdjustIdea, isGeneratingBgIdea,
                          IF loop.done THEN Remove(calls, k)
                          ELSE [calls EXCEPT ![k] = loop.call])
        ELSE /\ error' = Failure(ErrorPrefix(c), newImageFile.err)
             /\ loadingMessage' = None
             /\ UNCHANGED << images, activeImageIndex, prompt, hotspotVars, activeTab,
                             cropVars, backgroundVars, isGeneratingIdea, harnessVars >>
             /\ Render(isGeneratingFilterIdea, isGeneratingAdjustIdea, isGeneratingBgIdea,
                       calls)

ResolveImageCall(k, reply) ==
  LET c == calls[k]
      imageIndex == At(c.targets, c.i)
      resultUrl == ImageCallResult(reply, ContextOf(c.fn))
      newImageFile == IF resultUrl.ok THEN dataURLtoFile(resultUrl.val, FilePrefix(c), now)
                      ELSE resultUrl
  IN /\ resultUrl.ok => now <= MaxNow
     /\ now' = IF resultUrl.ok THEN now + 1 ELSE now
     /\ IF newImageFile.ok
        THEN LET loop == IF c.handler = "handleGenerate"
                         THEN [done |-> TRUE, failed |-> FALSE]
                         ELSE BatchLoop([c EXCEPT !.results = Append(@, newImageFile.val)],
                                        c.i + 1)
             IN /\ images' = addImageToHistory(images, newImageFile.val, imageIndex)
                /\ crop' = IF imageIndex = c.activeImageIndex THEN None ELSE crop
                /\ completedCrop' = IF imageIndex = c.activeImageIndex THEN None
                                    ELSE completedCrop
                /\ editHotspots' = IF c.handler = "handleGenerate" THEN <<>> ELSE editHotspots
                /\ displayHotspots' = IF c.handler = "handleGenerate" THEN <<>>
                                      ELSE displayHotspots
                /\ error' = IF loop.failed THEN Failure(ErrorPrefix(c), loop.err) ELSE error
                /\ loadingMessage' = IF loop.done THEN None
                                     ELSE Some(BatchLoadingMessage(c, loop.call.i))
                /\ UNCHANGED << activeImageIndex, prompt, activeTab, backgroundVars,
                                isGeneratingIdea, harnessVars >>
                /\ Render(isGeneratingFilterIdea, isGeneratingAdjustIdea, isGeneratingBgIdea,
                          IF loop.done THEN Remove(calls, k)
                          ELSE [calls EXCEPT ![k] = loop.call])
        ELSE /\ error' = Failure(ErrorPrefix(c), newImageFile.err)
             /\ loadingMessage' = None
             /\ UNCHANGED << images, activeImageIndex, prompt, hotspotVars, activeTab,
                             cropVars, backgroundVars, isGeneratingIdea, harnessVars >>
             /\ Render(isGeneratingFilterIdea, isGeneratingAdjustIdea, isGeneratingBgIdea,
                       Remove(calls, k))

\* handleGenerateBackground without the loading message.
handleGenerateBackground_NoLoading(bgPrompt) ==
  IF ~EditorShown
  THEN /\ error' = Failure("Tidak dapat membuat latar belakang tanpa referensi gambar.",
                           [kind |-> "Validation"])
       /\ UNCHANGED << images, activeImageIndex, prompt, loadingMessage, hotspotVars,
                       activeTab, cropVars, backgroundVars, isGeneratingIdea, now,
                       harnessVars >>
       /\ RenderSame
  ELSE /\ error' = None
       /\ UNCHANGED << images, activeImageIndex, prompt, loadingMessage, hotspotVars,
                       activeTab, cropVars, backgroundVars, isGeneratingIdea, now,
                       harnessVars >>
       /\ Render(isGeneratingFilterIdea, isGeneratingAdjustIdea, isGeneratingBgIdea,
                 Append(calls, [fn |-> "generateBackgroundImage",
                                handler |-> "handleGenerateBackground",
                                generatedBackgroundUrl |-> generatedBackgroundUrl]))

handleGenerateBackground(bgPrompt) ==
  IF ~EditorShown
  THEN /\ error' = Failure("Tidak dapat membuat latar belakang tanpa referensi gambar.",
                           [kind |-> "Validation"])
       /\ UNCHANGED << images, activeImageIndex, prompt, loadingMessage, hotspotVars,
                       activeTab, cropVars, backgroundVars, isGeneratingIdea, now,
                       harnessVars >>
       /\ RenderSame
  ELSE /\ loadingMessage' = Some([text |-> "Membuat latar belakang...", i |-> 0, n |-> 0])
       /\ error' = None
       /\ UNCHANGED << images, activeImageIndex, prompt, hotspotVars, activeTab,
                       cropVars, backgroundVars, isGeneratingIdea, now, harnessVars >>
       /\ Render(isGeneratingFilterIdea, isGeneratingAdjustIdea, isGeneratingBgIdea,
                 Append(calls, [fn |-> "generateBackgroundImage",
                                handler |-> "handleGenerateBackground",
                                generatedBackgroundUrl |-> generatedBackgroundUrl]))

\* The continuation of handleGenerateBackground clearing the loading message
\* at the end of the try block instead of in `finally`.
ResolveBackgroundCall_NoFinally(k, reply) ==
  LET backgroundUrl == generateBackgroundImageResult(reply)
      backgroundFile == IF backgroundUrl.ok
                        THEN dataURLtoFile(backgroundUrl.val, "background", now)
                        ELSE backgroundUrl
  IN /\ backgroundUrl.ok => now <= MaxNow
     /\ now' = IF backgroundUrl.ok THEN now + 1 ELSE now
     /\ loadingMessage' = IF backgroundFile.ok THEN None ELSE loadingMessage
     /\ IF backgroundFile.ok
        THEN /\ generatedBackground' = Some(backgroundFile.val)
             /\ generatedBackgroundUrl' = Some(createObjectURL(backgroundFile.val))
             /\ objectUrls' = revokeObjectURL(objectUrls, calls[k].generatedBackgroundUrl)
                                \cup { createObjectURL(backgroundFile.val) }
             /\ UNCHANGED error
        ELSE /\ error' = Failure("Gagal membuat latar belakang.", backgroundFile.err)
             /\ UNCHANGED backgroundVars
     /\ UNCHANGED << images, activeImageIndex, prompt, hotspotVars, activeTab, cropVars,
                     isGeneratingIdea, harnessVars >>
     /\ Render(isGeneratingFilterIdea, isGeneratingAdjustIdea, isGeneratingBgIdea,
               Remove(calls, k))

\* The continuation of handleGenerateBackground discarding the background it
\* holds when the generation fails.
ResolveBackgroundCall_ClearsOnFailure(k, reply) ==
  LET backgroundUrl == generateBackgroundImageResult(reply)
      backgroundFile == IF backgroundUrl.ok
                        THEN dataURLtoFile(backgroundUrl.val, "background", now)
                        ELSE backgroundUrl
  IN /\ backgroundUrl.ok => now <= MaxNow
     /\ now' = IF backgroundUrl.ok THEN now + 1 ELSE now
     /\ loadingMessage' = None
     /\ IF backgroundFile.ok
        THEN /\ generatedBackground' = Some(backgroundFile.val)
             /\ generatedBackgroundUrl' = Some(createObjectURL(backgroundFile.val))
             /\ objectUrls' = revokeObjectURL(objectUrls, calls[k].generatedBackgroundUrl)
                                \cup { createObjectURL(backgroundFile.val) }
             /\ UNCHANGED error
        ELSE /\ error' = Failure("Gagal membuat latar belakang.", backgroundFile.err)
             /\ generatedBackground' = None
             /\ generatedBackgroundUrl' = None
             /\ UNCHANGED objectUrls
     /\ UNCHANGED << images, activeImageIndex, prompt, hotspotVars, activeTab, cropVars,
                     isGeneratingIdea, harnessVars >>
     /\ Render(isGeneratingFilterIdea, isGeneratingAdjustIdea, isGeneratingBgIdea,
               Remove(calls, k))

\* The continuation of handleGenerateBackground.
ResolveBackgroundCall(k, reply) ==
  LET backgroundUrl == generateBackgroundImageResult(reply)
      backgroundFile == IF backgroundUrl.ok
                        THEN dataURLtoFile(backgroundUrl.val, "background", now)
                        ELSE backgroundUrl
  IN /\ backgroundUrl.ok => now <= MaxNow
     /\ now' = IF backgroundUrl.ok THEN now + 1 ELSE now
     /\ loadingMessage' = None
     /\ IF backgroundFile.ok
        THEN /\ generatedBackground' = Some(backgroundFile.val)
             /\ generatedBackgroundUrl' = Some(createObjectURL(backgroundFile.val))
             /\ objectUrls' = revokeObjectURL(objectUrls, calls[k].generatedBackgroundUrl)
                                \cup { createObjectURL(backgroundFile.val) }
             /\ UNCHANGED error
        ELSE /\ error' = Failure("Gagal membuat latar belakang.", backgroundFile.err)
             /\ UNCHANGED backgroundVars
     /\ UNCHANGED << images, activeImageIndex, prompt, hotspotVars, activeTab, cropVars,
                     isGeneratingIdea, harnessVars >>
     /\ Render(isGeneratingFilterIdea, isGeneratingAdjustIdea, isGeneratingBgIdea,
               Remove(calls, k))

(***************************************************************************)
(* Idea suggestions (App, FilterPanel, AdjustmentPanel)                    *)
(***************************************************************************)
IdeaCall(context) == [fn |-> "generateRandomPrompt", context |-> context, mounted |-> TRUE]

IdeaCallsInFlight == Len(SelectSeq(calls, LAMBDA c : c.fn = "generateRandomPrompt"))

handleGenerateRandomRetouchPrompt ==
  IF isGeneratingIdea THEN UNCHANGED vars
  ELSE /\ isGeneratingIdea' = TRUE
       /\ error' = None
       /\ UNCHANGED << images, activeImageIndex, prompt, loadingMessage, hotspotVars,
                       activeTab, cropVars, backgroundVars, now, harnessVars >>
       /\ Render(isGeneratingFilterIdea, isGeneratingAdjustIdea, isGeneratingBgIdea,
                 Append(calls, IdeaCall("retouch")))

\* FilterPanel.handleGenerateRandomPrompt
handleGenerateRandomPrompt ==
  IF isGeneratingFilterIdea THEN UNCHANGED vars
  ELSE /\ error' = None
       /\ UNCHANGED << images, activeImageIndex, prompt, loadingMessage, hotspotVars,
                       activeTab, cropVars, backgroundVars, isGeneratingIdea, now,
                       harnessVars >>
       /\ Render(TRUE, isGeneratingAdjustIdea, isGeneratingBgIdea,
                 Append(calls, IdeaCall("filter")))

handleGenerateRandomAdjustPrompt ==
  IF isGeneratingAdjustIdea THEN UNCHANGED vars
  ELSE /\ error' = None
       /\ UNCHANGED << images, activeImageIndex, prompt, loadingMessage, hotspotVars,
                       activeTab, cropVars, backgroundVars, isGeneratingIdea, now,
                       harnessVars >>
       /\ Render(isGeneratingFilterIdea, TRUE, isGeneratingBgIdea,
                 Append(calls, IdeaCall("adjustment")))

handleGenerateRandomBgPrompt ==
  IF isGeneratingBgIdea THEN UNCHANGED vars
  ELSE /\ error' = None
       /\ UNCHANGED << images, activeImageIndex, prompt, loadingMessage, hotspotVars,
                       activeTab, cropVars, backgroundVars, isGeneratingIdea, now,
                       harnessVars >>
       /\ Render(isGeneratingFilterIdea, isGeneratingAdjustIdea, TRUE,
                 Append(calls, IdeaCall("background")))

\* The continuation of the four idea handlers: the suggestion goes to the prompt
\* of the requesting component (App's `prompt` for retouch; a panel keeps its own
\* prompts), a failure goes to App's error, and the component's flag is lowered.
ResolveIdeaCall(k, reply) ==
  LET c == calls[k]
      idea == generateRandomPromptResult(reply)
  IN /\ prompt' = IF c.context = "retouch" /\ idea.ok THEN idea.val ELSE prompt
     /\ error' = IF idea.ok THEN error ELSE Failure("", idea.err)
     /\ isGeneratingIdea' = IF c.context = "retouch" THEN FALSE ELSE isGeneratingIdea
     /\ UNCHANGED << images, activeImageIndex, loadingMessage, hotspotVars, activeTab,
                     cropVars, backgroundVars, now, harnessVars >>
     /\ Render(isGeneratingFilterIdea /\ ~(c.context = "filter" /\ c.mounted),
               isGeneratingAdjustIdea /\ ~(c.context = "adjustment" /\ c.mounted),
               isGeneratingBgIdea /\ ~(c.context = "background" /\ c.mounted),
               Remove(calls, k))

(***************************************************************************)
(* The user's events: a control can be used when it is on screen and not   *)
(* disabled.                                                               *)
(***************************************************************************)
SelectFiles(files) == StartScreenShown /\ handleFileSelect(files)

ClickUndo == EditorShown /\ canUndo /\ handleUndo
ClickRedo == EditorShown /\ canRedo /\ handleRedo
ClickReset == EditorShown /\ canUndo /\ handleReset
ClickUploadNew == EditorShown /\ handleUploadNew
ClickThumbnail(index) == ThumbnailsShown /\ HasIndex(images, index) /\ handleSelectImage(index)
ClickDismissError == ErrorShown /\ dismissError
ClickTab(tab) == EditorShown /\ tab # activeTab /\ setActiveTab(tab)

ClickImage(offset) ==
  /\ EditorShown /\ activeTab = "retouch" /\ ~isLoading
  /\ Len(editHotspots) < MaxHotspots
  /\ handleImageClick(offset)

ClickClearHotspots ==
  EditorShown /\ activeTab = "retouch" /\ Len(editHotspots) > 0 /\ clearHotspots

TypePrompt(value) ==
  /\ EditorShown /\ activeTab = "retouch" /\ ~isLoading /\ Len(editHotspots) > 0
  /\ value # prompt
  /\ setPrompt(value)

SubmitRetouch ==
  /\ EditorShown /\ activeTab = "retouch"
  /\ ~isLoading /\ Trim(prompt) # <<>> /\ Len(editHotspots) > 0
  /\ handleGenerate

DragCrop == EditorShown /\ activeTab = "crop" /\ ~isLoading /\ setCompletedCrop([width |-> 10])

ClickApplyCrop ==
  /\ EditorShown /\ activeTab = "crop" /\ ~isLoading
  /\ IsSome(completedCrop) /\ Val(completedCrop).width > 0
  /\ now <= MaxNow
  /\ handleApplyCrop

ClickApplyFilter(filterPrompt, applyToAll) ==
  /\ FilterPanelMounted /\ ~isLoading /\ Trim(filterPrompt) # <<>>
  /\ applyToAll => Len(images) > 1
  /\ handleApplyFilter(filterPrompt, applyToAll)

ClickApplyAdjustment(adjustmentPrompt, applyToAll) ==
  /\ AdjustmentPanelMounted /\ ~isLoading /\ Trim(adjustmentPrompt) # <<>>
  /\ applyToAll => Len(images) > 1
  /\ handleApplyAdjustment(adjustmentPrompt, applyToAll)

ClickGenerateBackground(bgPrompt) ==
  /\ AdjustmentPanelMounted /\ ~isLoading /\ Trim(bgPrompt) # <<>>
  /\ handleGenerateBackground(bgPrompt)

UploadBackground(file) == AdjustmentPanelMounted /\ ~isLoading /\ handleBackgroundUpload(file)

ClickApplyBackground(applyToAll) ==
  /\ AdjustmentPanelMounted /\ IsSome(generatedBackgroundUrl) /\ ~isLoading
  /\ applyToAll => Len(images) > 1
  /\ handleApplyBackground(applyToAll)

ClickRetouchIdea ==
  /\ EditorShown /\ activeTab = "retouch"
  /\ ~isLoading /\ Len(editHotspots) > 0 /\ ~isGeneratingIdea
  /\ IdeaCallsInFlight < MaxIdeaCalls
  /\ handleGenerateRandomRetouchPrompt

ClickFilterIdea ==
  /\ FilterPanelMounted /\ ~isLoading /\ ~isGeneratingFilterIdea
  /\ IdeaCallsInFlight < MaxIdeaCalls
  /\ handleGenerateRandomPrompt

ClickAdjustIdea ==
  /\ AdjustmentPanelMounted /\ ~isLoading /\ ~isGeneratingAdjustIdea
  /\ IdeaCallsInFlight < MaxIdeaCalls
  /\ handleGenerateRandomAdjustPrompt

ClickBgIdea ==
  /\ AdjustmentPanelMounted /\ ~isLoading /\ ~isGeneratingBgIdea
  /\ IdeaCallsInFlight < MaxIdeaCalls
  /\ handleGenerateRandomBgPrompt

\* The remote service answers a call in flight.
ImageCallReturns(k, reply) == IsImageEditCall(calls[k]) /\ ResolveImageCall(k, reply)

BackgroundCallReturns(k, reply) ==
  calls[k].fn = "generateBackgroundImage" /\ ResolveBackgroundCall(k, reply)

IdeaCallReturns(k, reply) == calls[k].fn = "generateRandomPrompt" /\ ResolveIdeaCall(k, reply)

(***************************************************************************)
(* The editor                                                              *)
(***************************************************************************)
Init ==
  /\ images = <<>>
  /\ activeImageIndex = -1
  /\ prompt = <<>>
  /\ loadingMessage = None
  /\ error = None
  /\ editHotspots = <<>>
  /\ displayHotspots = <<>>
  /\ activeTab = "retouch"
  /\ crop = None
  /\ completedCrop = None
  /\ generatedBackground = None
  /\ generatedBackgroundUrl = None
  /\ isGeneratingIdea = FALSE
  /\ isGeneratingFilterIdea = FALSE
  /\ isGeneratingAdjustIdea = FALSE
  /\ isGeneratingBgIdea = FALSE
  /\ calls = <<>>
  /\ now = 1
  /\ vIn = None
  /\ vOut = None
  /\ objectUrls = {}

\* The editing operations on the images (retouch, filter, adjustment, background
\* compositing, on one image or on all) with the history controls.
Next ==
  \/ \E files \in FileLists : SelectFiles(files)
  \/ ClickUndo
  \/ ClickRedo
  \/ ClickReset
  \/ ClickUploadNew
  \/ \E index \in 0..(MaxImages - 1) : ClickThumbnail(index)
  \/ ClickDismissError
  \/ \E tab \in { "retouch", "filters", "adjust" } : ClickTab(tab)
  \/ \E offset \in ClickOffsets : ClickImage(offset)
  \/ ClickClearHotspots
  \/ \E value \in PromptInputs : TypePrompt(value)
  \/ SubmitRetouch
  \/ \E p \in PanelPrompts, applyToAll \in BOOLEAN : ClickApplyFilter(p, applyToAll)
  \/ \E p \in PanelPrompts, applyToAll \in BOOLEAN : ClickApplyAdjustment(p, applyToAll)
  \/ \E file \in BackgroundFiles : UploadBackground(file)
  \/ \E applyToAll \in BOOLEAN : ClickApplyBackground(applyToAll)
  \/ \E k \in 1..Len(calls), reply \in EditorReplies : ImageCallReturns(k, reply)

Spec == Init /\ [][Next]_vars

\* The same editor when no control is used while a call is in flight.
SerialNext ==
  \/ calls = <<>> /\ Next
  \/ \E k \in 1..Len(calls), reply \in EditorReplies : ImageCallReturns(k, reply)

SpecSerial == Init /\ [][SerialNext]_vars

\* Every control that starts a remote call, with the idea suggestions.
CallsNext ==
  \/ \E files \in FileLists : SelectFiles(files)
  \/ ClickUploadNew
  \/ ClickDismissError
  \/ \E tab \in { "retouch", "filters", "adjust" } : ClickTab(tab)
  \/ \E offset \in ClickOffsets : ClickImage(offset)
  \/ \E value \in PromptInputs : TypePrompt(value)
  \/ SubmitRetouch
  \/ \E p \in PanelPrompts, applyToAll \in BOOLEAN : ClickApplyFilter(p, applyToAll)
  \/ \E p \in PanelPrompts, applyToAll \in BOOLEAN : ClickApplyAdjustment(p, applyToAll)
  \/ \E p \in PanelPrompts : ClickGenerateBackground(p)
  \/ \E applyToAll \in BOOLEAN : ClickApplyBackground(applyToAll)
  \/ ClickRetouchIdea
  \/ ClickFilterIdea
  \/ ClickAdjustIdea
  \/ ClickBgIdea
  \/ \E k \in 1..Len(calls), reply \in EditorReplies : ImageCallReturns(k, reply)
  \/ \E k \in 1..Len(calls), reply \in ImagesReplies : BackgroundCallReturns(k, reply)
  \/ \E k \in 1..Len(calls), reply \in IdeaReplies : IdeaCallReturns(k, reply)

SpecCalls == Init /\ [][CallsNext]_vars

\* The remote service answers: a call of an image operation that is in flight
\* resolves or rejects.
ImageOperationReturns ==
  \/ \E k \in 1..Len(calls), reply \in EditorReplies : ImageCallReturns(k, reply)
  \/ \E k \in 1..Len(calls), reply \in ImagesReplies : BackgroundCallReturns(k, reply)

SpecCallsLive == SpecCalls /\ WF_vars(ImageOperationReturns)

\* The background of the Adjust tab (generated or uploaded, then applied to
\* one image or to all) with the history controls.
BackgroundNext ==
  \/ \E files \in FileLists : SelectFiles(files)
  \/ ClickUndo
  \/ ClickRedo
  \/ ClickReset
  \/ ClickUploadNew
  \/ \E index \in 0..(MaxImages - 1) : ClickThumbnail(index)
  \/ ClickDismissError
  \/ \E tab \in { "retouch", "adjust" } : ClickTab(tab)
  \/ \E file \in BackgroundFiles : UploadBackground(file)
  \/ \E p \in PanelPrompts : ClickGenerateBackground(p)
  \/ \E applyToAll \in BOOLEAN : ClickApplyBackground(applyToAll)
  \/ \E k \in 1..Len(calls), reply \in EditorReplies : ImageCallReturns(k, reply)
  \/ \E k \in 1..Len(calls), reply \in ImagesReplies : BackgroundCallReturns(k, reply)

SpecBackground == Init /\ [][BackgroundNext]_vars

\* The handlers of App called directly, whatever the controls on screen allow: a
\* handler that awaits is started while fewer than MaxCalls calls are pending.
HandlersNext ==
  \/ \E files \in FileLists \cup { <<>> } : handleFileSelect(files)
  \/ handleUploadNew
  \/ handleUndo
  \/ handleRedo
  \/ \E offset \in ClickOffsets :
       EditorShown /\ Len(editHotspots) < MaxHotspots /\ handleImageClick(offset)
  \/ \E value \in PromptInputs : setPrompt(value)
  \/ setCompletedCrop([width |-> 10])
  \/ now <= MaxNow /\ handleApplyCrop
  \/ \E file \in BackgroundFiles : handleBackgroundUpload(file)
  \/ Len(calls) < MaxCalls /\ handleGenerate
  \/ \E p \in PanelPrompts, applyToAll \in BOOLEAN :
       Len(calls) < MaxCalls /\ handleApplyFilter(p, applyToAll)
  \/ \E applyToAll \in BOOLEAN : Len(calls) < MaxCalls /\ handleApplyBackground(applyToAll)
  \/ \E k \in 1..Len(calls), reply \in EditorReplies : ImageCallReturns(k, reply)

SpecHandlers == Init /\ [][HandlersNext]_vars

(***************************************************************************)
(* The validator on its own: every response of the bounded response space, *)
(* under every context.                                                    *)
(***************************************************************************)
ValidatorInit ==
  /\ Init!1 /\ Init!2 /\ Init!3 /\ Init!4 /\ Init!5 /\ Init!6 /\ Init!7 /\ Init!8
  /\ Init!9 /\ Init!10 /\ Init!11 /\ Init!12 /\ Init!13 /\ Init!14 /\ Init!15
  /\ Init!16 /\ Init!17 /\ Init!18 /\ Init!21
  /\ vIn \in { Some([response |-> r, context |-> ctx]) : r \in Responses, ctx \in Contexts }
  /\ vOut = None

Validate ==
  /\ IsSome(vIn) /\ ~IsSome(vOut)
  /\ vOut' = Some(handleApiResponse(Val(vIn).response, Val(vIn).context))
  /\ UNCHANGED << images, activeImageIndex, prompt, loadingMessage, error, editHotspots,
                  displayHotspots, activeTab, crop, completedCrop, generatedBackground,
                  generatedBackgroundUrl, objectUrls, isGeneratingIdea,
                  isGeneratingFilterIdea, isGeneratingAdjustIdea, isGeneratingBgIdea, calls,
                  now, vIn >>

ValidatorNext == Validate

SpecValidator == ValidatorInit /\ [][ValidatorNext]_vars

(***************************************************************************)
(* generateRandomPrompt on its own: every text of the bounded text space   *)
(* as the text of the response, for each of the four contexts.             *)
(***************************************************************************)
IdeaContexts == { "retouch", "filter", "adjustment", "background" }

\* The texts of up to MaxTextLen characters, each a space, a quote or a letter.
IdeaTexts == UNION { [1..n -> { " ", "\"", "'", "p" }] : n \in 0..MaxTextLen }

IdeaInit ==
  /\ Init!1 /\ Init!2 /\ Init!3 /\ Init!4 /\ Init!5 /\ Init!6 /\ Init!7 /\ Init!8
  /\ Init!9 /\ Init!10 /\ Init!11 /\ Init!12 /\ Init!13 /\ Init!14 /\ Init!15
  /\ Init!16 /\ Init!17 /\ Init!18 /\ Init!21
  /\ vIn \in { Some([reply |-> r, context |-> ctx]) :
                r \in { Rejected, Resolved([text |-> None]) }
                       \cup { Resolved([text |-> Some(t)]) : t \in IdeaTexts },
                ctx \in IdeaContexts }
  /\ vOut = None

Suggest ==
  /\ IsSome(vIn) /\ ~IsSome(vOut)
  /\ vOut' = Some(generateRandomPromptResult(Val(vIn).reply))
  /\ UNCHANGED << images, activeImageIndex, prompt, loadingMessage, error, editHotspots,
                  displayHotspots, activeTab, crop, completedCrop, generatedBackground,
                  generatedBackgroundUrl, objectUrls, isGeneratingIdea,
                  isGeneratingFilterIdea, isGeneratingAdjustIdea, isGeneratingBgIdea, calls,
                  now, vIn >>

IdeaNext == Suggest

SpecIdea == IdeaInit /\ [][IdeaNext]_vars

(***************************************************************************)
(* The data-URL codec on its own: fileToPart followed by dataURLtoFile on  *)
(* every file of the bounded file space, and dataURLtoFile on data URLs    *)
(* with and without a defect.                                              *)
(***************************************************************************)
\* Files of up to MaxBytes bytes.  Their mime types are of a picked image and
\* of what dataURLtoFile can capture from a header (no ';' and no ',', possibly
\* a ':').
CodecFiles ==
  { File("x", 0, type, bytes) :
      type \in { Str_image_png, << "i", "/", "j" >>, << "a", ":", "b" >> },
      bytes \in UNION { [1..n -> { 0, 65, 255 }] : n \in 0..MaxBytes } }

\* Data URLs handed to dataURLtoFile, each with its defect.
CodecUrls ==
  { [defect |-> "none", url |-> Str_data \o << "i", "/", "j" >> \o Str_base64 \o << "Q", "Q", "=", "=" >>],
    [defect |-> "none", url |-> Str_data \o << "i", "/", "j" >> \o Str_base64],
    [defect |-> "no comma", url |-> <<>>],
    [defect |-> "no comma", url |-> Str_data \o << "i", "/", "j", ";", "b", "a", "s", "e", "6", "4" >>],
    [defect |-> "no mime", url |-> << "i", "/", "j", ";", ",", "Q", "Q", "=", "=" >>],
    [defect |-> "no mime", url |-> Str_data \o << "i", "/", "j", ",", "Q", "Q", "=", "=" >>],
    [defect |-> "no mime", url |-> << ",", "Q", "Q", "=", "=" >>],
    [defect |-> "empty mime", url |-> Str_data \o Str_base64 \o << "Q", "Q", "=", "=" >>],
    [defect |-> "empty mime", url |-> << ":", ";", ":", "i", "/", "j", ";", ",", "Q", "Q", "=", "=" >>] }

CodecInit ==
  /\ Init!1 /\ Init!2 /\ Init!3 /\ Init!4 /\ Init!5 /\ Init!6 /\ Init!7 /\ Init!8
  /\ Init!9 /\ Init!10 /\ Init!11 /\ Init!12 /\ Init!13 /\ Init!14 /\ Init!15
  /\ Init!16 /\ Init!17 /\ Init!18 /\ Init!21
  /\ vIn \in { Some([file |-> Some(f), url |-> None, defect |-> "none"]) : f \in CodecFiles }
             \cup { Some([file |-> None, url |-> Some(u.url), defect |-> u.defect]) :
                      u \in CodecUrls }
  /\ vOut = None

\* fileToPart of a file, then dataURLtoFile of `data:${mimeType};base64,${data}`.
EncodeDecode ==
  /\ IsSome(vIn) /\ ~IsSome(vOut) /\ IsSome(Val(vIn).file)
  /\ LET part == fileToPart(Val(Val(vIn).file))
     IN vOut' = Some([part |-> part,
                      file |-> IF part.ok
                               THEN dataURLtoFile(Str_data \o part.val.mimeType \o Str_base64
                                                    \o part.val.data, "x", 0)
                               ELSE part])
  /\ UNCHANGED << images, activeImageIndex, prompt, loadingMessage, error, editHotspots,
                  displayHotspots, activeTab, crop, completedCrop, generatedBackground,
                  generatedBackgroundUrl, objectUrls, isGeneratingIdea,
                  isGeneratingFilterIdea, isGeneratingAdjustIdea, isGeneratingBgIdea, calls,
                  now, vIn >>

Decode ==
  /\ IsSome(vIn) /\ ~IsSome(vOut) /\ IsSome(Val(vIn).url)
  /\ vOut' = Some([part |-> None, file |-> dataURLtoFile(Val(Val(vIn).url), "x", 0)])
  /\ UNCHANGED << images, activeImageIndex, prompt, loadingMessage, error, editHotspots,
                  displayHotspots, activeTab, crop, completedCrop, generatedBackground,
                  generatedBackgroundUrl, objectUrls, isGeneratingIdea,
                  isGeneratingFilterIdea, isGeneratingAdjustIdea, isGeneratingBgIdea, calls,
                  now, vIn >>

CodecNext == EncodeDecode \/ Decode

SpecCodec == CodecInit /\ [][CodecNext]_vars

(***************************************************************************)
(* Properties of the validator (checked under SpecValidator)               *)
(***************************************************************************)
vResponse == Val(vIn).response
vContext == Val(vIn).context
vResult == Val(vOut)

\* What a response holds, read off the response itself.
BlockReasonIn(response) ==
  IF IsSome(response.promptFeedback) THEN Val(response.promptFeedback).blockReason ELSE None

BlockMessageIn(response) ==
  IF IsSome(response.promptFeedback) THEN Val(response.promptFeedback).blockReasonMessage
  ELSE None

CarriesBlockReason(response) == BlockReasonIn(response) \notin { None, Some("") }

\* The inline image parts of the candidates, in order.
InlineImagesIn(response) ==
  IF ~IsSome(response.candidates) THEN <<>>
  ELSE LET cands == Val(response.candidates)
           PartsOfCandidate(cand) ==
             IF IsSome(cand.content) /\ IsSome(Val(cand.content).parts)
             THEN SelectSeq(Val(Val(cand.content).parts), LAMBDA part : IsSome(part.inlineData))
             ELSE <<>>
       IN IF Len(cands) = 0 THEN <<>> ELSE PartsOfCandidate(cands[1])

RefusalReasonIn(response) ==
  IF IsSome(response.candidates) /\ Len(Val(response.candidates)) > 0
  THEN LET reason == Val(response.candidates)[1].finishReason
       IN IF reason \in { None, Some(""), Some("STOP") } THEN None ELSE reason
  ELSE None

\* C8: a response carrying a block reason always fails with the blocked-request
\* error, which carries the reason and, if present, the detail message, whatever
\* else the response holds (an image part included).
C8_BlockedWins ==
  (IsSome(vOut) /\ CarriesBlockReason(vResponse)) =>
    /\ ~vResult.ok
    /\ vResult.err.kind = "Blocked"
    /\ vResult.err.blockReason = Val(BlockReasonIn(vResponse))
    /\ vResult.err.detail = IF BlockMessageIn(vResponse) \in { None, Some("") } THEN None
                            ELSE BlockMessageIn(vResponse)

\* A blocked response that also holds an image part has been validated.
C8_Witness ==
  /\ IsSome(vOut) /\ CarriesBlockReason(vResponse)
  /\ Len(InlineImagesIn(vResponse)) > 0
  /\ BlockMessageIn(vResponse) = Some("policy")
  /\ ~vResult.ok

\* C9: a response without a block reason whose candidate holds an inline image
\* part always yields the data URL "data:<mime>;base64,<payload>" built from the
\* first such part, even when it also reports a finish reason other than the
\* normal stop.
C9_ImageWins ==
  (IsSome(vOut) /\ ~CarriesBlockReason(vResponse) /\ Len(InlineImagesIn(vResponse)) > 0) =>
    LET inlineData == Val(InlineImagesIn(vResponse)[1].inlineData)
    IN /\ vResult.ok
       /\ vResult.val = << "d", "a", "t", "a", ":" >> \o inlineData.mimeType
                           \o << ";", "b", "a", "s", "e", "6", "4", "," >> \o inlineData.data

\* An image was returned from a response that reports a refusal.
C9_Witness ==
  /\ IsSome(vOut) /\ ~CarriesBlockReason(vResponse)
  /\ Len(InlineImagesIn(vResponse)) > 1
  /\ RefusalReasonIn(vResponse) = Some("SAFETY")
  /\ vResult.ok

\* C10: a response with neither a block reason nor an inline image part never
\* yields a value: it fails with the refused-operation error, carrying the finish
\* reason, when the finish reason is present and not the normal stop, and
\* otherwise with the no-image error, which carries the response's text, trimmed,
\* when that is not empty.
C10_NoImageFails ==
  (IsSome(vOut) /\ ~CarriesBlockReason(vResponse) /\ Len(InlineImagesIn(vResponse)) = 0) =>
    /\ ~vResult.ok
    /\ IF IsSome(RefusalReasonIn(vResponse))
       THEN vResult.err = [kind |-> "Refused", context |-> vContext,
                           finishReason |-> Val(RefusalReasonIn(vResponse))]
       ELSE /\ vResult.err.kind = "NoImage"
            /\ vResult.err.context = vContext
            /\ vResult.err.text =
                 IF IsSome(vResponse.text) /\ Trim(Val(vResponse.text)) # <<>>
                 THEN Some(Trim(Val(vResponse.text))) ELSE None

\* A response that stopped normally without an image failed with its text, trimmed.
C10_Witness ==
  /\ IsSome(vOut) /\ ~CarriesBlockReason(vResponse)
  /\ Len(InlineImagesIn(vResponse)) = 0
  /\ IsSome(vResponse.candidates) /\ Len(Val(vResponse.candidates)) > 0
  /\ Val(vResponse.candidates)[1].finishReason = Some("STOP")
  /\ vResponse.text = Some(<< " ", "t", " " >>)
  /\ ~vResult.ok /\ vResult.err.kind = "NoImage" /\ vResult.err.text = Some(<< "t" >>)

(***************************************************************************)
(* Properties of the history manager (checked under Spec)                  *)
(***************************************************************************)
\* C1: at every reachable state, every image of the collection has its cursor
\* inside its history, 0 <= historyIndex <= length(history) - 1, so it has a
\* current image.
C1_CursorInHistory ==
  \A i \in 1..Len(images) :
    /\ images[i].historyIndex >= 0
    /\ images[i].historyIndex <= Len(images[i].history) - 1

\* An image with two results appended and one undone.
C1_Witness ==
  \E i \in 1..Len(images) : Len(images[i].history) = 3 /\ images[i].historyIndex = 1

\* C2: a step that appends a new image to the image at an index with history h
\* and cursor c leaves that image with the history h[0..c] followed by the new
\* image and the cursor c + 1, the last position (so redo is not possible), and
\* leaves every other image as it was.
C2_AppendTruncates ==
  [][ \A k \in 1..Len(calls), reply \in EditorReplies :
        (ImageCallReturns(k, reply) /\ images' # images) =>
          LET index == At(calls[k].targets, calls[k].i)
          IN /\ HasIndex(images, index)
             /\ Len(images') = Len(images)
             /\ \A j \in 1..Len(images) : j - 1 # index => images'[j] = images[j]
             /\ LET h == At(images, index).history
                    c == At(images, index).historyIndex
                    after == At(images', index)
                IN /\ Len(after.history) = c + 2
                   /\ SubSeq(after.history, 1, c + 1) = SubSeq(h, 1, c + 1)
                   /\ after.history[c + 2].name.stamp = now
                   /\ after.historyIndex = c + 1
                   /\ after.historyIndex = Len(after.history) - 1
                   /\ after.original = At(images, index).original
    ]_vars

\* While the second call of a batch is in flight, its first target, which had a
\* redoable entry when the batch started, holds its history up to the cursor it
\* had, followed by the result of the first call.
C2_Witness ==
  \E k \in 1..Len(calls) :
    /\ IsImageEditCall(calls[k]) /\ calls[k].i = 1
    /\ LET t == At(calls[k].targets, 0)
           was == At(calls[k].snapshot, t)
       IN /\ was.historyIndex < Len(was.history) - 1
          /\ HasIndex(images, t)
          /\ At(images, t).history =
               Append(SubSeq(was.history, 1, was.historyIndex + 1), calls[k].results[1])
          /\ At(images, t).historyIndex = was.historyIndex + 1

(***************************************************************************)
(* Properties of the image operations (checked under Spec)                 *)
(***************************************************************************)
IsBatchCall(c) == c.handler \in { "handleApplyBatchOperation", "handleApplyBackground" }

\* An edit of one image: the localized edit, or a batch on the active image only.
IsSingleEdit(c) == c.handler = "handleGenerate" \/ (IsBatchCall(c) /\ ~c.applyToAll)

\* What the operation of call c makes of a reply: the new file, or the failure of
\* the remote call, of the validator or of the decoder.
OutcomeOf(reply, c) ==
  LET url == ImageCallResult(reply, ContextOf(c.fn))
  IN IF url.ok THEN dataURLtoFile(url.val, FilePrefix(c), now) ELSE url

\* The image at index t of `after` is the one of `before` with one entry appended.
AppendedAt(before, after, t) ==
  /\ HasIndex(before, t)
  /\ Len(after) = Len(before)
  /\ \A j \in 1..Len(before) : j - 1 # t => after[j] = before[j]
  /\ At(after, t).original = At(before, t).original
  /\ At(after, t).history =
       SubSeq(At(before, t).history, 1, At(before, t).historyIndex + 1)
         \o << At(after, t).history[Len(At(after, t).history)] >>
  /\ At(after, t).historyIndex = Len(At(after, t).history) - 1

\* C3: when the operation fails on the k-th target of a batch, every earlier
\* target holds the history it had when the batch started, up to its cursor,
\* followed by exactly one new entry, its result; the failure leaves the
\* history and the cursor of every image, the failing target and the later
\* targets included, as they were; no call of the batch is in flight any more;
\* and the failure of the failing target's call is reported.
C3_BatchHaltsOnFailure ==
  [][ \A k \in 1..Len(calls), reply \in EditorReplies :
        (ImageCallReturns(k, reply) /\ IsBatchCall(calls[k]) /\ ~OutcomeOf(reply, calls[k]).ok) =>
          LET c == calls[k]
          IN /\ \A j \in 0..(c.i - 1) :
                  LET t == At(c.targets, j)
                      was == At(c.snapshot, t)
                  IN /\ HasIndex(images', t)
                     /\ At(images', t).history =
                          Append(SubSeq(was.history, 1, was.historyIndex + 1), c.results[j + 1])
             /\ images' = images
             /\ SelectSeq(calls', IsBatchCall) = <<>>
             /\ IsSome(error') /\ Val(error').cause = OutcomeOf(reply, c).err
    ]_vars

C6_NoMutationInFlight ==
  [][ (calls # <<>>
         /\ ~(\E k \in 1..Len(calls), reply \in EditorReplies : ImageCallReturns(k, reply)))
        => UNCHANGED << images, activeImageIndex >>
    ]_vars

\* C7: when the call of an edit of one image returns, either the operation did
\* not fail (decoding the returned data URL included) and exactly one new entry
\* is appended to the target image, or it failed, every image's history and
\* cursor and the hotspots are as they were, and an error message is set.
C7_EditAllOrNothing ==
  [][ \A k \in 1..Len(calls), reply \in EditorReplies :
        (ImageCallReturns(k, reply) /\ IsSingleEdit(calls[k])) =>
          LET c == calls[k]
              t == At(c.targets, 0)
          IN IF OutcomeOf(reply, c).ok
             THEN /\ AppendedAt(images, images', t)
                  /\ At(images', t).history[Len(At(images', t).history)] = OutcomeOf(reply, c).val
             ELSE /\ images' = images
                  /\ editHotspots' = editHotspots /\ displayHotspots' = displayHotspots
                  /\ IsSome(error')
    ]_vars

(***************************************************************************)
(* Properties of the remote calls (checked under SpecCalls)                *)
(***************************************************************************)
IsIdeaCall(c) == c.fn = "generateRandomPrompt"

\* C5 as stated: at every reachable state at most one remote call (localized
\* edit, filter, adjustment, background generation, background compositing or
\* idea suggestion) is in flight.
C5_OneCallInFlight == Len(calls) <= 1

\* C5 as amended: at every reachable state at most one remote call of an image
\* operation (localized edit, filter, adjustment, background generation,
\* background compositing) is in flight; calls of idea suggestions are not
\* counted.
C5_OneImageCallInFlight ==
  Len(SelectSeq(calls, LAMBDA c : ~IsIdeaCall(c))) <= 1

\* An image operation and an idea suggestion are in flight together.
C5_Witness ==
  /\ Len(calls) = 2
  /\ \E k \in 1..2 : IsIdeaCall(calls[k])
  /\ \E k \in 1..2 : ~IsIdeaCall(calls[k])
  /\ isLoading

(***************************************************************************)
(* Properties of undo, redo and reset                                      *)
(***************************************************************************)
\* The collection after redo has been used on the image at index: the state
\* update of handleRedo, which does nothing at the last entry.
RedoOn(imgs, index) ==
  IF HasIndex(imgs, index) /\ At(imgs, index).historyIndex < Len(At(imgs, index).history) - 1
  THEN updateImageState(imgs, index, At(imgs, index).historyIndex + 1)
  ELSE imgs

RECURSIVE RedoTimes(_, _, _)
RedoTimes(imgs, index, n) ==
  IF n = 0 THEN imgs ELSE RedoTimes(RedoOn(imgs, index), index, n - 1)

\* C11: a reset of the active image, whose cursor is c, sets its cursor to 0 and
\* keeps its history (no entry deleted or reordered) and every other image; redo
\* used c times afterwards gives back the collection as it was before the reset,
\* so the entry that was current before the reset is current again.
C11_ResetThenRedo ==
  [][ ClickReset =>
        LET c == At(images, activeImageIndex).historyIndex
        IN /\ activeImageIndex' = activeImageIndex
           /\ Len(images') = Len(images)
           /\ \A j \in 1..Len(images) :
                /\ images'[j].history = images[j].history
                /\ images'[j].original = images[j].original
                /\ images'[j].historyIndex =
                     IF j - 1 = activeImageIndex THEN 0 ELSE images[j].historyIndex
           /\ RedoTimes(images', activeImageIndex', c) = images
           /\ CurrentOf(At(RedoTimes(images', activeImageIndex', c), activeImageIndex'))
                = currentImage ]_vars

\* The active image back at its original with two results still in its history.
C11_Witness ==
  /\ IsSome(activeImageState)
  /\ Len(Val(activeImageState).history) = 3
  /\ Val(activeImageState).historyIndex = 0

\* C12: a step of undo moves the cursor of the active image back by one, a step
\* of redo moves it forward by one, and neither changes any history, any other
\* image, the number of images or the active index.
C12_UndoRedoMoveCursorOnly ==
  [][ /\ ClickUndo =>
           /\ activeImageIndex' = activeImageIndex
           /\ images' = [images EXCEPT ![activeImageIndex + 1].historyIndex = @ - 1]
      /\ ClickRedo =>
           /\ activeImageIndex' = activeImageIndex
           /\ images' = [images EXCEPT ![activeImageIndex + 1].historyIndex = @ + 1] ]_vars

\* Two images with results, the active one moved back from its last entry while
\* the other one stays at its own last entry.
C12_Witness ==
  /\ Len(images) = 2
  /\ IsSome(activeImageState)
  /\ Val(activeImageState).historyIndex < Len(Val(activeImageState).history) - 1
  /\ \E j \in 1..Len(images) :
       /\ j - 1 # activeImageIndex
       /\ images[j].historyIndex = Len(images[j].history) - 1
       /\ images[j].historyIndex > 0

\* C13: handleUndo called while the active cursor is 0 (or no image is active),
\* and handleRedo called while the active cursor is at the last entry, change
\* nothing: the collection, every cursor, the active index and both hotspot
\* sequences are as before.
C13_UndoRedoAtEndsDoNothing ==
  [][ /\ (handleUndo /\ ~canUndo) =>
           /\ images' = images
           /\ activeImageIndex' = activeImageIndex
           /\ editHotspots' = editHotspots
           /\ displayHotspots' = displayHotspots
      /\ (handleRedo /\ ~canRedo) =>
           /\ images' = images
           /\ activeImageIndex' = activeImageIndex
           /\ editHotspots' = editHotspots
           /\ displayHotspots' = displayHotspots ]_vars

\* An image undone back to its original, where undo is refused, with a hotspot
\* placed that an undo would have cleared.
C13_Witness ==
  /\ IsSome(activeImageState)
  /\ Len(Val(activeImageState).history) > 1
  /\ Val(activeImageState).historyIndex = 0
  /\ ~canUndo
  /\ editHotspots # <<>>
  /\ displayHotspots # <<>>

\* C14: a step that hands the result of a call to addImageToHistory for an index
\* changes at most the image at that index: every other image, the number and
\* order of the images and the active index are as before, and when the
\* collection has no image at the index it is not changed at all.
C14_AppendTouchesOneImage ==
  [][ \A k \in 1..Len(calls), reply \in EditorReplies :
        ImageCallReturns(k, reply) =>
          LET index == At(calls[k].targets, calls[k].i)
          IN /\ activeImageIndex' = activeImageIndex
             /\ Len(images') = Len(images)
             /\ \A j \in 1..Len(images) :
                  /\ images'[j].original = images[j].original
                  /\ j - 1 # index => images'[j] = images[j]
             /\ ~HasIndex(images, index) => images' = images ]_vars

\* The first image holds a result while the second image, which has none, is
\* the active one.
C14_Witness ==
  /\ Len(images) = 2
  /\ activeImageIndex = 1
  /\ Len(images[1].history) = 2
  /\ images[1].historyIndex = 1
  /\ Len(images[2].history) = 1

(***************************************************************************)
(* Properties of the collection                                            *)
(***************************************************************************)
\* C15: in every reachable state the first history entry of every image is its
\* originally uploaded file, and every step other than an upload or Upload New
\* keeps the images' originals and either keeps a history, or replaces it by its
\* entries up to the cursor followed by one new entry: a history gets shorter
\* only by the truncation of an append.
C15_FirstEntryIsOriginal ==
  /\ [](\A j \in 1..Len(images) :
          /\ Len(images[j].history) >= 1
          /\ images[j].history[1] = images[j].original
          /\ images[j].original \in { Roster[n] : n \in 1..Len(Roster) })
  /\ [][ \/ \E files \in FileLists : SelectFiles(files)
         \/ ClickUploadNew
         \/ /\ Len(images') = Len(images)
            /\ \A j \in 1..Len(images) :
                 /\ images'[j].original = images[j].original
                 /\ \/ images'[j].history = images[j].history
                    \/ /\ Len(images'[j].history) = images[j].historyIndex + 2
                       /\ SubSeq(images'[j].history, 1, images[j].historyIndex + 1)
                            = SubSeq(images[j].history, 1, images[j].historyIndex + 1) ]_vars

\* An image whose only result is the third file produced: the results before
\* it were undone and dropped by the append.
C15_Witness ==
  /\ Len(images) = 1
  /\ Len(images[1].history) = 2
  /\ images[1].history[1] = images[1].original
  /\ images[1].history[2].name.stamp = MaxNow

\* C16: in every reachable state the active index is -1 when the collection is
\* empty, and an index of the collection when it is not.
C16_ActiveIndexValid ==
  /\ (activeImageIndex = -1) <=> (images = <<>>)
  /\ images # <<>> => (0 <= activeImageIndex /\ activeImageIndex < Len(images))

\* The collection emptied by Upload New after the second image was selected
\* and edited.
C16_Witness ==
  /\ images = <<>>
  /\ activeImageIndex = -1
  /\ \E k \in 1..Len(calls) :
       /\ IsImageEditCall(calls[k])
       /\ calls[k].activeImageIndex = 1

\* C17: handleFileSelect called with a non-empty list of files, in any state,
\* leaves a collection with one image per file, in the order of the files, each
\* with the file as its original and as its only history entry and with cursor
\* 0; the active index is 0, both hotspot sequences are empty, and the crop
\* selection and the generated background are cleared.
C17_UploadReplacesCollection ==
  [][ \A files \in FileLists :
        handleFileSelect(files) =>
          /\ Len(images') = Len(files)
          /\ \A i \in 1..Len(files) :
               /\ images'[i].original = files[i]
               /\ images'[i].history = << files[i] >>
               /\ images'[i].historyIndex = 0
          /\ activeImageIndex' = 0
          /\ editHotspots' = <<>>
          /\ displayHotspots' = <<>>
          /\ crop' = None
          /\ completedCrop' = None
          /\ generatedBackground' = None
          /\ generatedBackgroundUrl' = None ]_vars

\* A fresh collection of two images loaded after results had been produced for
\* an earlier collection, while a call started before the upload is in flight.
C17_Witness ==
  /\ Len(images) = 2
  /\ \A i \in 1..Len(images) :
       images[i].history = << images[i].original >> /\ images[i].historyIndex = 0
  /\ activeImageIndex = 0
  /\ now > 0
  /\ calls # <<>>
  /\ editHotspots = <<>>
  /\ completedCrop = None
  /\ generatedBackground = None

(***************************************************************************)
(* Properties of the hotspots                                              *)
(***************************************************************************)
\* C18: both hotspot sequences are empty after every step of undo, redo, reset
\* and of the selection of an image, and after every step in which the call
\* of a localized edit returns a result that becomes a file; a step in which
\* the call of a localized edit fails leaves both sequences as they were.
C18_HotspotsCleared ==
  [][ /\ (ClickUndo \/ ClickRedo \/ ClickReset
            \/ \E index \in 0..(MaxImages - 1) : ClickThumbnail(index)) =>
           (editHotspots' = <<>> /\ displayHotspots' = <<>>)
      /\ \A k \in 1..Len(calls), reply \in EditorReplies :
           (ImageCallReturns(k, reply) /\ calls[k].handler = "handleGenerate") =>
             IF OutcomeOf(reply, calls[k]).ok
             THEN editHotspots' = <<>> /\ displayHotspots' = <<>>
             ELSE /\ editHotspots' = editHotspots
                  /\ displayHotspots' = displayHotspots
                  /\ error' = Failure("Gagal menghasilkan gambar.", OutcomeOf(reply, calls[k]).err)
    ]_vars

\* The failure of a localized edit on screen with the hotspot of the edit
\* still placed.
C18_Witness ==
  /\ IsSome(error)
  /\ Val(error).prefix = "Gagal menghasilkan gambar."
  /\ editHotspots # <<>>
  /\ Len(displayHotspots) = Len(editHotspots)

(***************************************************************************)
(* Properties of the validation done before a remote call                  *)
(***************************************************************************)
\* The batch has nothing to work on: no target, or a target that is not an
\* index of the collection.
NoValidTarget(applyToAll) ==
  LET targets == BatchTargets(applyToAll)
  IN \/ targets = <<>>
     \/ \E t \in 1..Len(targets) : ~HasIndex(images, targets[t])

NoTargetError(operationName) ==
  Failure("Tidak ada gambar yang dipilih untuk menerapkan " \o operationName \o ".",
          [kind |-> "Validation"])

\* C19: a batch operation (filter, or background with a background loaded)
\* called while its target set is empty or holds an index that is not in the
\* collection sets the no-target-selected error of its operation, starts no
\* remote call and changes no image.  (For the filter the steps looked at are
\* those that handleUploadNew could not have taken, so that a step of the trace
\* is a step of the batch handler.)
C19_BatchNeedsTarget ==
  [][ /\ \A p \in PanelPrompts, applyToAll \in BOOLEAN :
           (/\ handleApplyFilter(p, applyToAll)
            /\ ~handleUploadNew
            /\ NoValidTarget(applyToAll)) =>
             /\ error' = NoTargetError("filter")
             /\ calls' = calls
             /\ images' = images
      /\ \A applyToAll \in BOOLEAN :
           (/\ handleApplyBackground(applyToAll)
            /\ IsSome(generatedBackground)
            /\ NoValidTarget(applyToAll)) =>
             /\ error' = NoTargetError("latar belakang")
             /\ calls' = calls
             /\ images' = images ]_vars

\* The error set by a check made before any remote call.
IsValidationError(e) == IsSome(e) /\ Val(e).cause = [kind |-> "Validation"]

\* C20: handleGenerate called with a prompt that is empty or blank or with no
\* hotspot, handleApplyCrop called with no completed crop, and
\* handleApplyBackground called with no generated background each set an error
\* and nothing else: no remote call is started, the loading message is not
\* set, and no history or cursor changes.
C20_ValidationBlocksCall ==
  [][ /\ (handleGenerate /\ (Trim(prompt) = <<>> \/ Len(editHotspots) = 0)) =>
           /\ IsValidationError(error')
           /\ calls' = calls
           /\ loadingMessage' = loadingMessage
           /\ images' = images
      /\ (handleApplyCrop /\ ~IsSome(completedCrop)) =>
           /\ error' = Failure("Silakan pilih area untuk dipotong.", [kind |-> "Validation"])
           /\ calls' = calls
           /\ loadingMessage' = loadingMessage
           /\ images' = images
      /\ \A applyToAll \in BOOLEAN :
           (handleApplyBackground(applyToAll) /\ ~IsSome(generatedBackground)) =>
             /\ error' = Failure("Tidak ada latar belakang yang dibuat untuk diterapkan.",
                                 [kind |-> "Validation"])
             /\ calls' = calls
             /\ loadingMessage' = loadingMessage
             /\ images' = images ]_vars

\* The localized edit of a loaded image refused for its blank prompt: the error
\* is set, the hotspot is still placed, nothing is loading and no call is in
\* flight.
C20_Witness ==
  /\ error = Failure("Silakan masukkan deskripsi untuk editan Anda.", [kind |-> "Validation"])
  /\ IsSome(activeImageState)
  /\ prompt = << " " >>
  /\ editHotspots # <<>>
  /\ ~isLoading
  /\ calls = <<>>

(***************************************************************************)
(* Properties of the requests sent to the remote service                   *)
(***************************************************************************)
\* The requests in flight that belong to image operations and to ideas.
IsBackgroundCall(c) == c.fn = "generateBackgroundImage"

\* The remote functions awaited, in the order of their requests.
Awaited(cs) == [j \in 1..Len(cs) |-> cs[j].fn]

\* C21: an invocation sends one request at a time and never sends one again.
\* No step adds more than one request.  When the request of a batch for its
\* target number i returns a file and targets remain, the batch replaces it by
\* the request of target i + 1 and sends nothing else, so n targets take n
\* requests when all succeed; when it was the last target, or the request
\* fails in any way, the request is gone and nothing is sent in its place.
\* The request of a localized edit, of a background generation and of an idea
\* is gone when it returns, whatever its reply, and nothing is sent in its
\* place.
C21_OneRequestNoRetry ==
  [][ /\ Len(calls') <= Len(calls) + 1
      /\ \A k \in 1..Len(calls), reply \in EditorReplies :
           ImageCallReturns(k, reply) =>
             LET c == calls[k]
             IN IF /\ OutcomeOf(reply, c).ok
                   /\ IsBatchCall(c)
                   /\ c.i + 1 < Len(c.targets)
                THEN /\ Len(calls') = Len(calls)
                     /\ calls'[k].handler = c.handler
                     /\ calls'[k].targets = c.targets
                     /\ calls'[k].i = c.i + 1
                     /\ calls'[k].i < Len(c.targets)
                     /\ Awaited(calls') = Awaited(calls)
                ELSE Awaited(calls') = Awaited(Remove(calls, k))
      /\ \A k \in 1..Len(calls), reply \in ImagesReplies :
           BackgroundCallReturns(k, reply) =>
             Awaited(calls') = Awaited(Remove(calls, k))
      /\ \A k \in 1..Len(calls), reply \in IdeaReplies :
           IdeaCallReturns(k, reply) =>
             Awaited(calls') = Awaited(Remove(calls, k)) ]_vars

\* A batch over two images at its second and last request, the first image
\* holding the result of the first request.
C21_Witness ==
  \E k \in 1..Len(calls) :
    /\ IsImageEditCall(calls[k])
    /\ IsBatchCall(calls[k])
    /\ Len(calls[k].targets) = 2
    /\ calls[k].i = 1
    /\ Len(calls[k].results) = 1
    /\ Len(images) = 2
    /\ Len(images[1].history) = 2

(***************************************************************************)
(* Properties of generateRandomPrompt (checked under SpecIdea)             *)
(***************************************************************************)
\* The text the service answered with, when it answered with one.
AnsweredText == Val(vIn).reply.response.text

HasAnsweredText ==
  IsSome(vIn) /\ ~Val(vIn).reply.rejected /\ IsSome(Val(vIn).reply.response.text)

IsQuote(ch) == ch \in { "\"", "'" }

EmptySuggestionError == Throw([kind |-> "Idea", cause |-> [kind |-> "EmptySuggestion"]])

\* C22: for each context, when the text of the response is made of whitespace
\* only (the empty text included) or of quote characters only, the call fails
\* with the empty-suggestion error; and a suggestion that is returned is never
\* the empty string.
C22_BlankSuggestionFails ==
  IsSome(vOut) =>
    /\ (/\ HasAnsweredText
         /\ \/ \A n \in 1..Len(Val(AnsweredText)) : IsSpace(Val(AnsweredText)[n])
            \/ \A n \in 1..Len(Val(AnsweredText)) : IsQuote(Val(AnsweredText)[n]))
          => Val(vOut) = EmptySuggestionError
    /\ Val(vOut).ok => Val(vOut).val # <<>>

\* The text of two quote characters, refused for the background context.
C22_Witness ==
  /\ IsSome(vOut)
  /\ HasAnsweredText
  /\ Val(AnsweredText) = << "'", "\"" >>
  /\ Val(vIn).context = "background"
  /\ Val(vOut) = EmptySuggestionError

\* C28: a suggestion that is returned holds no single or double quote
\* character, is not empty and is not made of whitespace only.
C28_SuggestionClean ==
  (IsSome(vOut) /\ Val(vOut).ok) =>
    /\ \A n \in 1..Len(Val(vOut).val) : ~IsQuote(Val(vOut).val[n])
    /\ Val(vOut).val # <<>>
    /\ \E n \in 1..Len(Val(vOut).val) : ~IsSpace(Val(vOut).val[n])

(***************************************************************************)
(* Properties of the loading state                                         *)
(***************************************************************************)
ImageOperationInFlight ==
  \E k \in 1..Len(calls) : IsImageEditCall(calls[k]) \/ IsBackgroundCall(calls[k])

\* C23: the loading message is set in every state in which the call of an
\* image operation is in flight, and, the calls being answered, every state
\* with the loading message set is followed by a state in which it is cleared
\* and no call of an image operation is in flight.
C23_LoadingUntilDone ==
  /\ [](ImageOperationInFlight => isLoading)
  /\ isLoading ~> (~isLoading /\ ~ImageOperationInFlight)

\* An operation ended by a result that could not be decoded: its error is on
\* screen and loading is cleared.
C23_Witness ==
  /\ IsSome(error)
  /\ Val(error).cause = [kind |-> "NoMimeType"]
  /\ ~isLoading
  /\ ~ImageOperationInFlight

(***************************************************************************)
(* Properties of the data-URL codec (checked under SpecCodec)              *)
(***************************************************************************)
\* C25: a file encoded by fileToPart and decoded from the data URL made of the
\* part's mime type and data comes back with its mime type and with the same
\* bytes; and dataURLtoFile fails on a string with no comma, with no mime type
\* in its header or with an empty one.
C25_RoundTrip ==
  IsSome(vOut) =>
    /\ IsSome(Val(vIn).file) =>
         /\ Val(vOut).part.ok
         /\ Val(vOut).part.val.mimeType = Val(Val(vIn).file).type
         /\ Val(vOut).file.ok
         /\ Val(vOut).file.val.type = Val(Val(vIn).file).type
         /\ Val(vOut).file.val.bytes = Val(Val(vIn).file).bytes
    /\ IsSome(Val(vIn).url) =>
         /\ Val(vIn).defect = "no comma" => Val(vOut).file = Throw([kind |-> "InvalidDataURL"])
         /\ Val(vIn).defect \in { "no mime", "empty mime" } =>
              Val(vOut).file = Throw([kind |-> "NoMimeType"])
         /\ Val(vIn).defect = "none" => Val(vOut).file.ok

\* A file of four bytes, the last group of its payload padded, back from
\* the round trip.
C25_Witness ==
  /\ IsSome(vOut)
  /\ IsSome(Val(vIn).file)
  /\ Val(Val(vIn).file).bytes = << 255, 0, 65, 255 >>
  /\ Val(vOut).file.ok
  /\ Val(vOut).file.val.bytes = << 255, 0, 65, 255 >>

(***************************************************************************)
(* Properties of a result that arrives after the collection has changed    *)
(***************************************************************************)
\* C26: a step that appends the result of a call to the image at an index
\* appends it to the image whose entry was sent with the call: that image
\* holds the sent file in its history.
C26_ResultGoesToItsImage ==
  [][ \A k \in 1..Len(calls), reply \in EditorReplies :
        (ImageCallReturns(k, reply) /\ images' # images) =>
          LET t == At(calls[k].targets, calls[k].i)
              sent == calls[k].sent[1]
          IN /\ HasIndex(images, t)
             /\ \E n \in 1..Len(At(images, t).history) : At(images, t).history[n] = sent ]_vars

\* C27: after a step that appends the result of a call to an image, the entry
\* before the result in the history of that image is the file that was sent
\* with the call.
C27_ResultFollowsItsInput ==
  [][ \A k \in 1..Len(calls), reply \in EditorReplies :
        (ImageCallReturns(k, reply) /\ images' # images) =>
          LET t == At(calls[k].targets, calls[k].i)
              sent == calls[k].sent[1]
              after == At(images', t).history
          IN /\ Len(after) >= 2
             /\ after[Len(after) - 1] = sent ]_vars

\* C30: a step that hands a result to addImageToHistory for an index at which
\* the collection holds no image leaves the collection as it was and sets no
\* error.
C30_MissingIndexIgnored ==
  [][ \A k \in 1..Len(calls), reply \in EditorReplies :
        (/\ ImageCallReturns(k, reply)
         /\ OutcomeOf(reply, calls[k]).ok
         /\ ~HasIndex(images, At(calls[k].targets, calls[k].i))) =>
          /\ images' = images
          /\ activeImageIndex' = activeImageIndex
          /\ error' = error ]_vars

\* The collection is empty and a batch over two images, started before it was
\* emptied, has handed over its first result and waits for its second.
C30_Witness ==
  /\ images = <<>>
  /\ error = None
  /\ \E k \in 1..Len(calls) :
       /\ IsImageEditCall(calls[k])
       /\ calls[k].i = 1
       /\ Len(calls[k].results) = 1

(***************************************************************************)
(* Properties of the generated background                                  *)
(***************************************************************************)
\* C24: in every reachable state the object URLs of backgrounds that were
\* created and not revoked are at most the one the editor holds for display:
\* a URL that was replaced or discarded (by reset, upload, Upload New) has
\* been revoked.  (The URLs of the current image, the original image and the
\* thumbnails are revoked by the cleanup of the effect that made them, and the
\* download link revokes its own.)
C24_NoUrlLeft ==
  objectUrls \subseteq
    (IF IsSome(generatedBackgroundUrl) THEN { Val(generatedBackgroundUrl) } ELSE {})

\* The generation answered by `reply` gives a background file.
BackgroundMade(reply) ==
  LET url == generateBackgroundImageResult(reply)
  IN url.ok /\ dataURLtoFile(url.val, "background", now).ok

\* C29: a step that discards the background is a step of upload, Upload New
\* or reset; a step that sets or replaces it is a background upload or the
\* return of a generation that made a file; undo, redo, the selection of an
\* image, every return of an image operation (an append included), a failed
\* generation and the start of applying the background leave the background
\* and its URL as they were; and uploading a background, starting a generation
\* and its return change no image.
C29_BackgroundFrame ==
  [][ /\ (generatedBackground' # generatedBackground /\ generatedBackground' = None) =>
           \/ \E files \in FileLists : SelectFiles(files)
           \/ ClickUploadNew
           \/ ClickReset
      /\ (generatedBackground' # generatedBackground /\ generatedBackground' # None) =>
           \/ \E file \in BackgroundFiles : UploadBackground(file)
           \/ \E k \in 1..Len(calls), reply \in ImagesReplies :
                BackgroundCallReturns(k, reply) /\ BackgroundMade(reply)
      /\ (\/ ClickUndo
          \/ ClickRedo
          \/ \E index \in 0..(MaxImages - 1) : ClickThumbnail(index)
          \/ \E applyToAll \in BOOLEAN : ClickApplyBackground(applyToAll)
          \/ \E k \in 1..Len(calls), reply \in EditorReplies : ImageCallReturns(k, reply)
          \/ \E k \in 1..Len(calls), reply \in ImagesReplies :
               BackgroundCallReturns(k, reply) /\ ~BackgroundMade(reply)) =>
           /\ generatedBackground' = generatedBackground
           /\ generatedBackgroundUrl' = generatedBackgroundUrl
      /\ (\/ \E file \in BackgroundFiles : UploadBackground(file)
          \/ \E p \in PanelPrompts : ClickGenerateBackground(p)
          \/ \E k \in 1..Len(calls), reply \in ImagesReplies : BackgroundCallReturns(k, reply)) =>
           images' = images ]_vars

\* The background still held after it was applied twice to the same image.
C29_Witness ==
  /\ IsSome(generatedBackground)
  /\ IsSome(generatedBackgroundUrl)
  /\ \E i \in 1..Len(images) :
       /\ Len(images[i].history) = 3
       /\ images[i].historyIndex = 2
====
